---- MODULE Spec2Model ----
(***************************************************************************)
(* A model of the chart-automation core: the StockChartsController's       *)
(* ChartList navigation with its one-slot cache, the batch operations that *)
(* open one tab per request, the selector fallback chains, and the         *)
(* BrowserSessionManager with its registry and parallel task dispatch.     *)
(* The live page is the environment: every probe of it (query, click,      *)
(* goto, screenshot) has an outcome drawn from a small set.                *)
(***************************************************************************)
EXTENDS Integers, Sequences, FiniteSets, TLC

VARIABLES
    ctl,        \* the controllers constructed so far: index -> fields of a StockChartsController
    sessions,   \* BrowserSessionManager.sessions: session_id -> controller index
    proc,       \* the running coroutines: process id -> position and locals
    hist,       \* the two most recent controller/manager calls and what they did (observation)
    out,        \* what the last finished operation returned (observation)
    sel         \* the last selector resolution: outcomes given, strategies tried, result

vars == <<ctl, sessions, proc, hist, out, sel>>

---------------------------------------------------------------------------
(* Values *)

\* Python's None for an optional string (no ChartList or ticker is named so).
None == "<None>"

\* The largest number of rows of a configuration file.
MaxReqs == 3

ChartLists == {"A", "B"}

\* A row of the configuration after load_chart_configs: an optional
\* timeframe_box is <<>> (None) or <<n>>.
Req(cl, ch, t, box) ==
    [chartlist |-> cl, chart_name |-> ch, tab_order |-> t, timeframe_box |-> box]

\* The rows the configuration files are made of: the scenario A/X, A/Y, B/Z
\* and a row that repeats a tab_order and names a box outside 1..12.
ReqPool ==
    { Req("A", "X", 1, <<>>), Req("A", "Y", 2, <<4>>),
      Req("B", "Z", 3, <<>>), Req("B", "X", 2, <<13>>) }

\* The configuration files: rows in file order, no row twice; the empty
\* file stands for a file that load_chart_configs rejects.
ConfigFiles ==
    UNION { { f \in [1..n -> ReqPool] : \A i, j \in 1..n : i # j => f[i] # f[j] }
            : n \in 0..MaxReqs }

\* Python's truth value of an optional int: None and 0 are false.
Truthy(box) == box # <<>> /\ box[1] # 0

---------------------------------------------------------------------------
(* load_chart_configs: the stable sort by tab_order *)

\* (mutant) a row is placed before the rows of the same tab_order.
RECURSIVE InsertBeforeEqual(_, _)
InsertBeforeEqual(r, s) ==
    IF s = <<>> THEN <<r>>
    ELSE IF s[Len(s)].tab_order < r.tab_order THEN Append(s, r)
    ELSE Append(InsertBeforeEqual(r, SubSeq(s, 1, Len(s) - 1)), s[Len(s)])

RECURSIVE InsertByTabOrder(_, _)
InsertByTabOrder(r, s) ==
    IF s = <<>> THEN <<r>>
    ELSE IF s[Len(s)].tab_order <= r.tab_order THEN Append(s, r)
    ELSE Append(InsertByTabOrder(r, SubSeq(s, 1, Len(s) - 1)), s[Len(s)])

RECURSIVE SortByTabOrder(_)
SortByTabOrder(s) ==
    IF s = <<>> THEN <<>>
    ELSE InsertByTabOrder(s[Len(s)], SortByTabOrder(SubSeq(s, 1, Len(s) - 1)))

\* load_chart_configs raises on a file with no valid row (and on a missing
\* file); otherwise it returns the rows sorted by tab_order.
LoadChartConfigs(file) ==
    IF file = <<>> THEN [ok |-> FALSE, configs |-> <<>>]
    ELSE [ok |-> TRUE, configs |-> SortByTabOrder(file)]

---------------------------------------------------------------------------
(* The controller *)

\* The persisted-auth-state file of a controller constructed with session_id
\* sid (None when the argument is not passed): browser_session_<id>.json.
SessionFile(sid) ==
    <<"browser_session_", IF sid = None THEN "default" ELSE sid, ".json">>

\* (mutant) a controller is constructed logged in.
NewControllerLoggedIn(user, pos) ==
    [ username |-> user,
      session_file |-> SessionFile(None),
      window_position |-> pos,
      made |-> {},
      open |-> {},
      is_logged_in |-> TRUE,
      current_ticker |-> None,
      current_chartlist |-> None ]

\* StockChartsController.__init__, called as create_session and main.py call
\* it: without the session_id argument.
NewController(user, pos) ==
    [ username |-> user,
      session_file |-> SessionFile(None),
      window_position |-> pos,
      made |-> {},
      open |-> {},
      is_logged_in |-> FALSE,
      current_ticker |-> None,
      current_chartlist |-> None ]

\* self.page is set and was not closed: the controller has a page to drive.
Started(c) == "page" \in c.open

\* How initialize() ends: one of its steps raises ("corrupt": the session
\* file exists and new_context(storage_state=...) cannot read or parse it;
\* "blank_raises": in headed mode the page exists and its navigation to
\* about:blank raises), or it runs through with no session file ("fresh"),
\* a stored session that verifies ("restored"), one whose Log Out link does
\* not appear ("expired"), or one whose verification raises
\* ("verify_raises").
InitOutcomes ==
    { "start_raises", "launch_raises", "context_raises", "corrupt", "page_raises",
      "blank_raises", "fresh", "restored", "expired", "verify_raises" }

\* The outcomes with which initialize() returns.
InitReturns == {"fresh", "restored", "expired", "verify_raises"}

\* The resources initialize() has created when it ends with outcome o.
MadeBy(o) ==
    CASE o = "start_raises" -> {}
      [] o = "launch_raises" -> {"playwright"}
      [] o = "context_raises" -> {"playwright", "browser"}
      [] o = "corrupt" -> {"playwright", "browser"}
      [] o = "page_raises" -> {"playwright", "browser", "context"}
      [] OTHER -> {"playwright", "browser", "context", "page"}

\* (mutant) a stored session is trusted without the Log Out link.
InitializeTrustingFile(c, o) ==
    [ ctl |-> [c EXCEPT !.made = c.made \cup MadeBy(o),
                        !.open = c.open \cup MadeBy(o),
                        !.is_logged_in = IF o \in {"restored", "expired", "verify_raises"}
                                         THEN TRUE ELSE c.is_logged_in],
      raised |-> o \notin InitReturns ]

\* StockChartsController.initialize: the controller after the call, and
\* whether the call raised.
Initialize(c, o) ==
    [ ctl |-> [c EXCEPT !.made = c.made \cup MadeBy(o),
                        !.open = c.open \cup MadeBy(o),
                        !.is_logged_in = IF o = "restored" THEN TRUE ELSE c.is_logged_in],
      raised |-> o \notin InitReturns ]

\* initialize() from its await number k on (k of its resources are
\* assigned), in a run that ends as o says: the next resource is assigned,
\* or the call ends, returning or raising.
InitializeStep(c, k, o) ==
    IF Cardinality(MadeBy(o)) > k
    THEN LET next == CASE k = 0 -> "playwright" [] k = 1 -> "browser"
                       [] k = 2 -> "context" [] OTHER -> "page"
         IN  [ ctl |-> [c EXCEPT !.made = @ \cup {next}, !.open = @ \cup {next}],
               ended |-> FALSE, raised |-> FALSE ]
    ELSE [ ctl |-> Initialize(c, o).ctl, ended |-> TRUE, raised |-> Initialize(c, o).raised ]

\* How close() ends: it closes the context, the browser and the driver in
\* this order and stops at the first close that raises.
CloseOutcomes == {"ok", "context_raises", "browser_raises", "stop_raises"}

CloseEnvs(c) ==
    { o \in CloseOutcomes :
        /\ o = "context_raises" => "context" \in c.made
        /\ o = "browser_raises" => "browser" \in c.made
        /\ o = "stop_raises" => "playwright" \in c.made }

\* StockChartsController.close: the controller after the call, and whether
\* the call raised.
Close(c, o) ==
    LET closed == CASE o = "ok" -> {"context", "page", "browser", "playwright"}
                    [] o = "context_raises" -> {}
                    [] o = "browser_raises" -> {"context", "page"}
                    [] o = "stop_raises" -> {"context", "page", "browser"}
    IN  [ ctl |-> [c EXCEPT !.open = c.open \ closed],
          raised |-> o # "ok" ]

\* close() from its await number k on (0: the context, 1: the browser, 2:
\* the driver), in a run that ends as o says: the resource is closed, or
\* the close raises and close() ends with it.
CloseStep(c, k, o) ==
    LET gone == CASE k = 0 -> {"context", "page"} [] k = 1 -> {"browser"}
                  [] OTHER -> {"playwright"}
        raises == \/ k = 0 /\ o = "context_raises"
                  \/ k = 1 /\ o = "browser_raises"
                  \/ k = 2 /\ o = "stop_raises"
    IN  IF raises THEN [ctl |-> c, ended |-> TRUE, raised |-> TRUE]
        ELSE [ctl |-> [c EXCEPT !.open = @ \ gone], ended |-> k = 2, raised |-> FALSE]

\* What the page shows after the login form was submitted.
LoginOutcomes == {"indicator", "error_msg", "still_login_page", "ambiguous", "exception"}

\* StockChartsController.login: the controller after the call, the value
\* returned, and whether the interactive form login was entered.
Login(c, lo) ==
    IF c.is_logged_in THEN [ctl |-> c, ret |-> TRUE, form |-> FALSE]
    ELSE IF lo \in {"indicator", "ambiguous"}
         THEN [ctl |-> [c EXCEPT !.is_logged_in = TRUE], ret |-> TRUE, form |-> TRUE]
         ELSE [ctl |-> c, ret |-> FALSE, form |-> TRUE]

\* login() from its first await on, on the controller as it is now: the
\* call found is_logged_in false before it, and the form login goes on
\* whatever the flag has become since.
FormLogin(c, lo) ==
    [ ctl |-> [c EXCEPT !.is_logged_in = @ \/ lo \in {"indicator", "ambiguous"}],
      ret |-> lo \in {"indicator", "ambiguous"} ]

\* (mutant) the direct navigation loads the hub ticker.
NavigateToHub(c, ticker, o) ==
    LET l == IF c.is_logged_in THEN [ctl |-> c, ret |-> TRUE] ELSE Login(c, o.login)
    IN  IF ~l.ret \/ ~Started(c) THEN [ctl |-> l.ctl, ret |-> FALSE]
        ELSE IF o.goto = "ok"
             THEN [ctl |-> [l.ctl EXCEPT !.current_ticker = "AMZN"], ret |-> TRUE]
             ELSE [ctl |-> l.ctl, ret |-> FALSE]

\* StockChartsController.navigate_to_chart (direct URL navigation by ticker).
\* o.login is read only when the controller is not logged in, o.goto only
\* when the URL navigation is reached.
NavigateToChart(c, ticker, o) ==
    LET l == IF c.is_logged_in THEN [ctl |-> c, ret |-> TRUE] ELSE Login(c, o.login)
    IN  IF ~l.ret \/ ~Started(c) THEN [ctl |-> l.ctl, ret |-> FALSE]
        ELSE IF o.goto = "ok"
             THEN [ctl |-> [l.ctl EXCEPT !.current_ticker = ticker], ret |-> TRUE]
             ELSE [ctl |-> l.ctl, ret |-> FALSE]

\* What the ChartList dropdown does on a cache miss.
ClOutcomes ==
    { "toggle_missing",       \* query_selector finds no toggle button (or raises)
      "toggle_click_raises",  \* the click on the toggle raises
      "exact",                \* text=<name> is found and clicked
      "partial",              \* only *:has-text(<name>) is found, and clicked
      "not_found",            \* neither is found
      "query_raises",         \* a query for the entry raises
      "entry_click_raises" }  \* the entry is found, the click on it raises

\* What the Chart dropdown does.
ChOutcomes ==
    { "toggle_missing", "toggle_click_raises", "exact", "partial",
      "not_found", "query_raises", "entry_click_raises" }

Selected(x) == x \in {"exact", "partial"}

\* The environment's answers to a direct URL navigation; a field the call
\* does not read is "-". On a controller that was not started there is no
\* page: every use of it raises.
FallbackEnvs(c) ==
    IF ~Started(c)
    THEN { [login |-> IF c.is_logged_in THEN "-" ELSE "exception", goto |-> "-"] }
    ELSE IF c.is_logged_in
    THEN { [login |-> "-", goto |-> g] : g \in {"ok", "raises"} }
    ELSE { [login |-> lo, goto |-> g] : lo \in {"indicator", "ambiguous"}, g \in {"ok", "raises"} }
         \cup { [login |-> lo, goto |-> "-"] : lo \in LoginOutcomes \ {"indicator", "ambiguous"} }

\* The environment's answers to the Chart dropdown and to what follows it.
ChartStepEnvs(c) ==
    { [ch |-> x, login |-> "-", goto |-> "-"] : x \in {"exact", "partial"} }
    \cup { [ch |-> x, login |-> f.login, goto |-> f.goto] :
             x \in ChOutcomes \ {"exact", "partial"}, f \in FallbackEnvs(c) }

\* The environment's answers to one navigate_via_chartlist_dropdown call
\* that found need_chartlist_switch = need; a field the call does not read
\* is "-".
NavEnvs(c, need) ==
    IF ~Started(c)
    THEN { [ cl |-> IF need THEN "toggle_missing" ELSE "-",
             ch |-> IF need THEN "-" ELSE "toggle_missing",
             login |-> f.login, goto |-> f.goto ] : f \in FallbackEnvs(c) }
    ELSE IF ~need
    THEN { [cl |-> "-", ch |-> e.ch, login |-> e.login, goto |-> e.goto] : e \in ChartStepEnvs(c) }
    ELSE { [cl |-> x, ch |-> e.ch, login |-> e.login, goto |-> e.goto] :
             x \in {"exact", "partial"}, e \in ChartStepEnvs(c) }
         \cup { [cl |-> x, ch |-> "-", login |-> f.login, goto |-> f.goto] :
                  x \in ClOutcomes \ {"exact", "partial"}, f \in FallbackEnvs(c) }

\* (mutant) the cache is written after an exact match only.
CacheOnlyOnExact(c, cl, o) == IF o.cl = "exact" THEN cl ELSE c.current_chartlist

\* (mutant) the cache is written as soon as the dropdown was opened.
CacheOnAttempt(c, cl, o) == IF o.cl # "toggle_missing" THEN cl ELSE c.current_chartlist

\* (mutant) the cache is not written after a selection.
CacheNeverSet(c, cl, o) == c.current_chartlist

\* The ChartList cache after the ChartList step of a cache miss: set only
\* after the click on the entry was issued without raising.
CacheAfterSelect(c, cl, o) ==
    IF Selected(o.cl) THEN cl ELSE c.current_chartlist

\* navigate_via_chartlist_dropdown after it has read the cache
\* (need_chartlist_switch) and before its first await, on the controller as
\* it is now: the controller after the call, the value returned, the clicks
\* issued on the ChartList dropdown (toggle and entry), whether the click on
\* the ChartList entry was issued without raising, whether the call fell
\* back to navigate_to_chart because an entry was not found, and how that
\* direct navigation ended.
NavigateAfterRead(c, cl, chart, need_chartlist_switch, o) ==
    LET toggleClicks == IF need_chartlist_switch /\ o.cl # "toggle_missing" THEN 1 ELSE 0
        entryClicks == IF need_chartlist_switch
                          /\ o.cl \in {"exact", "partial", "entry_click_raises"} THEN 1 ELSE 0
        c1 == IF need_chartlist_switch
              THEN [c EXCEPT !.current_chartlist = CacheAfterSelect(c, cl, o)]
              ELSE c
        clOk == ~need_chartlist_switch \/ Selected(o.cl)
        fallback == ~clOk \/ ~Selected(o.ch)
        fb == NavigateToChart(c1, chart, o)
    IN  [ ctl |-> IF fallback THEN fb.ctl ELSE c1,
          ret |-> IF fallback THEN fb.ret ELSE TRUE,
          hit |-> ~need_chartlist_switch,
          toggleClicks |-> toggleClicks,
          entryClicks |-> entryClicks,
          selOk |-> clOk,
          fallback |-> fallback,
          entryOk |-> need_chartlist_switch /\ Selected(o.cl),
          notFound |-> IF need_chartlist_switch /\ ~Selected(o.cl)
                       THEN o.cl = "not_found" ELSE o.ch = "not_found",
          direct |-> IF ~fallback THEN "none" ELSE IF fb.ret THEN "ok" ELSE "failed" ]

\* StockChartsController.navigate_via_chartlist_dropdown with no other
\* coroutine on the controller: the cache is read and the rest follows.
NavigateViaChartlistDropdown(c, cl, chart, o) ==
    NavigateAfterRead(c, cl, chart, c.current_chartlist # cl, o)

---------------------------------------------------------------------------
(* Selector fallback chains *)

\* The strategies of _click_chartstyle_box and of get_chart_element.
NumBoxSelectors == 3
NumChartSelectors == 6

\* What one find-and-click strategy does: no element, the probe raises, the
\* element is found and clicked, the element is found and the click raises.
ClickOutcomes == {"none", "raises", "click_ok", "click_raises"}

\* What one probing strategy does.
ProbeOutcomes == {"none", "raises", "found"}

\* A strategy matches when it produces the required outcome.
Matches(x) == x \in {"click_ok", "found"}

\* (mutant) the loop does not stop at the first strategy that matches.
RECURSIVE TryAllSelectors(_, _, _, _)
TryAllSelectors(outs, i, tried, clicks) ==
    IF i > Len(outs)
    THEN LET m == { j \in 1..Len(outs) : Matches(outs[j]) }
         IN  [ found |-> m # {}, tried |-> tried,
               used |-> IF m = {} THEN 0 ELSE CHOOSE j \in m : \A k \in m : k <= j,
               clicks |-> clicks ]
    ELSE TryAllSelectors(outs, i + 1, Append(tried, i),
                         IF outs[i] \in {"click_ok", "click_raises"}
                         THEN Append(clicks, i) ELSE clicks)

\* The loop over the selectors from strategy i on: the strategies tried so
\* far in order, the one used (0: none), the clicks issued.
RECURSIVE TrySelectors(_, _, _, _)
TrySelectors(outs, i, tried, clicks) ==
    IF i > Len(outs) THEN [found |-> FALSE, tried |-> tried, used |-> 0, clicks |-> clicks]
    ELSE LET t == Append(tried, i)
             k == IF outs[i] \in {"click_ok", "click_raises"} THEN Append(clicks, i) ELSE clicks
         IN  IF Matches(outs[i])
             THEN [found |-> TRUE, tried |-> t, used |-> i, clicks |-> k]
             ELSE TrySelectors(outs, i + 1, t, k)

\* StockChartsController._click_chartstyle_box: True when a box was clicked.
ClickChartstyleBox(outs) == TrySelectors(outs, 1, <<>>, <<>>)

\* StockChartsController.get_chart_element: the selector found, or None.
GetChartElement(outs) == TrySelectors(outs, 1, <<>>, <<>>)

BoxEnvs == [1..NumBoxSelectors -> ClickOutcomes]
ChartEnvs == [1..NumChartSelectors -> ProbeOutcomes]

---------------------------------------------------------------------------
(* Observations *)

NoCall == [op |-> "none"]
NoHist == [last |-> NoCall, prev |-> NoCall]
NoOut == [op |-> "none"]

\* A call of navigate_via_chartlist_dropdown is recorded as the most recent
\* one and the one before it is kept; any other operation ends the sequence.
Record(h, call) == [last |-> call, prev |-> h.last]

\* The start of a batch is recorded with the ChartList cache it found.
BatchCall(c) == [last |-> [op |-> "batch", cache_before |-> c.current_chartlist], prev |-> NoCall]

EmptyMap == [x \in {} |-> 0]

---------------------------------------------------------------------------
(* Coroutines *)

\* No task: the coroutine was not dispatched by run_parallel_tasks.
NoTask ==
    [ session_id |-> "-", task_type |-> "-", has_params |-> FALSE, file |-> <<>>,
      boxes |-> <<>> ]

\* What the call of navigate_via_chartlist_dropdown(cl, chart) for request
\* idx that has just returned r did; it drives self.page, the main tab (0).
NavCall(idx, cl, chart, r) ==
    [ op |-> "nav", idx |-> idx, page |-> 0,
      cl |-> cl, chart |-> chart, hit |-> r.hit, entryOk |-> r.entryOk,
      notFound |-> r.notFound, fallback |-> r.fallback, direct |-> r.direct, ret |-> r.ret ]

IdleProc ==
    [ pc |-> "idle", kind |-> "none", c |-> 0, configs |-> <<>>, idx |-> 0,
      task |-> NoTask, res |-> [kind |-> "none"],
      opened_tabs |-> EmptyMap, cache_hits |-> 0, cache_misses |-> 0,
      opens |-> 0, selOk |-> TRUE, navigated |-> {}, fallbacks |-> {}, created |-> {},
      stored |-> {}, need_chartlist_switch |-> FALSE, nav |-> NoCall, tab |-> NoCall ]

\* The controller is between two calls: no coroutine is running on it.
Free(c) == \A p \in DOMAIN proc : proc[p].pc = "idle" \/ proc[p].c # c

---------------------------------------------------------------------------
(* Calls on one controller *)

Tickers == {"X"}

\* initialize() on a controller that has no page yet.
CtlInitialize(c) ==
    /\ c \in DOMAIN ctl /\ Free(c) /\ "page" \notin ctl[c].made
    /\ \E o \in InitOutcomes :
         /\ ctl' = [ctl EXCEPT ![c] = Initialize(ctl[c], o).ctl]
         /\ out' = [ op |-> "initialize", c |-> c, outcome |-> o,
                     raised |-> Initialize(ctl[c], o).raised ]
    /\ hist' = NoHist
    /\ UNCHANGED <<sessions, proc, sel>>

\* What login() can find on the controller: with no page to drive, the
\* first use of the page raises.
LoginEnvs(c) == IF Started(c) THEN LoginOutcomes ELSE {"exception"}

\* login()
CtlLogin(c) ==
    /\ c \in DOMAIN ctl /\ Free(c)
    /\ \E lo \in LoginEnvs(ctl[c]) :
         LET r == Login(ctl[c], lo)
         IN  /\ ctl' = [ctl EXCEPT ![c] = r.ctl]
             /\ out' = [op |-> "login", c |-> c, ret |-> r.ret, outcome |-> lo,
                        was_logged_in |-> ctl[c].is_logged_in, form |-> r.form,
                        after_init |-> IF out.op = "initialize" /\ out.c = c
                                       THEN out.outcome ELSE "-"]
    /\ hist' = NoHist
    /\ UNCHANGED <<sessions, proc, sel>>

\* enter_ticker_in_search_box(ticker): current_ticker is set unless a step raises.
EnterTicker(c, ticker, o) ==
    IF o = "ok" THEN [ctl |-> [c EXCEPT !.current_ticker = ticker], ret |-> TRUE]
    ELSE [ctl |-> c, ret |-> FALSE]

\* What enter_ticker_in_search_box can do on the controller.
EnterEnvs(c) == IF Started(c) THEN {"ok", "raises"} ELSE {"raises"}

CtlEnterTicker(c) ==
    /\ c \in DOMAIN ctl /\ Free(c)
    /\ \E t \in Tickers, o \in EnterEnvs(ctl[c]) :
         LET r == EnterTicker(ctl[c], t, o)
         IN  /\ ctl' = [ctl EXCEPT ![c] = r.ctl]
             /\ out' = [op |-> "enter_ticker", c |-> c, ret |-> r.ret]
    /\ hist' = NoHist
    /\ UNCHANGED <<sessions, proc, sel>>

\* close(), called once: on a controller of which nothing was closed yet.
CtlClose(c) ==
    /\ c \in DOMAIN ctl /\ Free(c) /\ ctl[c].open = ctl[c].made
    /\ \E r \in { Close(ctl[c], o) : o \in CloseEnvs(ctl[c]) } :
         /\ ctl' = [ctl EXCEPT ![c] = r.ctl]
         /\ out' = [op |-> "close", c |-> c, raised |-> r.raised]
    /\ hist' = NoHist
    /\ UNCHANGED <<sessions, proc, sel>>

\* navigate_via_chartlist_dropdown(cl, chart), called directly.
CtlNavigate(c) ==
    /\ c \in DOMAIN ctl /\ Free(c)
    /\ \E cl \in ChartLists, chart \in Tickers :
         \E r \in { NavigateViaChartlistDropdown(ctl[c], cl, chart, o) : o \in NavEnvs(ctl[c], ctl[c].current_chartlist # cl) } :
                /\ ctl' = [ctl EXCEPT ![c] = r.ctl]
                /\ hist' = Record(hist, [ op |-> "nav", c |-> c, cl |-> cl, hit |-> r.hit,
                                          selOk |-> r.selOk,
                                          toggleClicks |-> r.toggleClicks,
                                          entryClicks |-> r.entryClicks ])
                /\ out' = [ op |-> "nav", c |-> c, cl |-> cl, ret |-> r.ret,
                            entryOk |-> r.entryOk, fallback |-> r.fallback ]
    /\ UNCHANGED <<sessions, proc, sel>>

\* navigate_to_chart(ticker), called directly.
CtlNavigateToChart(c) ==
    /\ c \in DOMAIN ctl /\ Free(c)
    /\ \E t \in Tickers :
         \E r \in { NavigateToChart(ctl[c], t, o) : o \in FallbackEnvs(ctl[c]) } :
            /\ ctl' = [ctl EXCEPT ![c] = r.ctl]
            /\ out' = [ op |-> "navigate_to_chart", c |-> c, ticker |-> t, ret |-> r.ret,
                        was_logged_in |-> ctl[c].is_logged_in ]
    /\ hist' = NoHist
    /\ UNCHANGED <<sessions, proc, sel>>

---------------------------------------------------------------------------
(* open_charts_from_excel *)

\* The hub ticker the batch operations navigate to first.
Hub == "AMZN"

\* How the second half of a request's processing ends: the new tab cannot
\* be created (requests #2..N), its navigation raises, the screenshot
\* raises, or the request is recorded.
TabOutcomes(idx) ==
    IF idx = 1 THEN {"shot_raises", "ok"}
    ELSE {"newpage_raises", "goto_raises", "shot_raises", "ok"}

\* Whether _click_chartstyle_box is called and clicks a box, over all the
\* answers of its selectors.
BoxResults(cfg) ==
    IF Truthy(cfg.timeframe_box)
    THEN { ClickChartstyleBox(b).found : b \in BoxEnvs }
    ELSE {FALSE}

\* The start of a batch: the configuration is loaded, the ChartList cache is
\* reset and the main tab is sent to the hub ticker.
ResetCache(c) == [c EXCEPT !.current_chartlist = None]

BatchPrelude(c, et) == EnterTicker(ResetCache(c), Hub, et).ctl

\* What load_chart_configs returns for the files it accepts.
LoadedConfigs ==
    { LoadChartConfigs(f).configs : f \in { g \in ConfigFiles : LoadChartConfigs(g).ok } }

\* open_charts_from_excel up to the loop, on a file that loads.
BatchStart(p, c, configs) ==
    /\ proc[p].pc = "idle" /\ c \in DOMAIN ctl /\ Free(c)
    /\ \E et \in EnterEnvs(ctl[c]) :
         ctl' = [ctl EXCEPT ![c] = BatchPrelude(ctl[c], et)]
    /\ proc' = [proc EXCEPT ![p] = [IdleProc EXCEPT !.pc = "nav", !.kind = "excel", !.c = c,
                                       !.configs = configs,
                                       !.idx = 1]]
    /\ hist' = BatchCall(ctl[c])
    /\ out' = NoOut
    /\ UNCHANGED <<sessions, sel>>

\* open_charts_from_excel on a file that load_chart_configs rejects: the
\* exception is caught and the empty map is returned.
BatchRejected(p, c, file) ==
    /\ proc[p].pc = "idle" /\ c \in DOMAIN ctl /\ Free(c)
    /\ ~LoadChartConfigs(file).ok
    /\ out' = [ op |-> "batch", kind |-> "excel", c |-> c, loaded |-> FALSE,
                configs |-> <<>>, result |-> EmptyMap,
                navigated |-> {}, fallbacks |-> {}, created |-> {}, stored |-> {} ]
    /\ hist' = NoHist
    /\ UNCHANGED <<ctl, sessions, proc, sel>>

\* (mutant) the loop ends at the first request that fails (break).
BreakOnFailure(q) ==
    [q EXCEPT !.pc = "nav",
              !.idx = IF q.idx \in q.stored THEN q.idx + 1 ELSE Len(q.configs) + 1]

\* Where the loop goes after request idx: a failed request is skipped
\* (continue), the loop ends after the last request.
NextRequest(q) == [q EXCEPT !.pc = "nav", !.idx = q.idx + 1]

\* (mutant) every request is counted as a miss.
WasCachedNever(c, cl) == FALSE

\* was_cached = (self.current_chartlist == chartlist_name)
WasCached(c, cl) == c.current_chartlist = cl

\* The first half of the loop body: the cache statistics and the call of
\* navigate_via_chartlist_dropdown on the main tab.
BatchNavigate(p) ==
    /\ p \in DOMAIN proc /\ proc[p].pc = "nav" /\ proc[p].kind = "excel" /\ proc[p].idx <= Len(proc[p].configs)
    /\ LET q == proc[p]
           cfg == q.configs[q.idx]
           was_cached == WasCached(ctl[q.c], cfg.chartlist)
       IN  \E r \in { NavigateViaChartlistDropdown(ctl[q.c], cfg.chartlist, cfg.chart_name, o) :
                        o \in NavEnvs(ctl[q.c], ~was_cached) } :
             LET q1 == [q EXCEPT !.cache_hits = IF was_cached THEN @ + 1 ELSE @,
                                 !.cache_misses = IF was_cached THEN @ ELSE @ + 1,
                                 !.navigated = @ \cup {q.idx},
                                 !.fallbacks = IF r.fallback THEN @ \cup {q.idx} ELSE @,
                                 !.opens = @ + r.toggleClicks,
                                 !.selOk = @ /\ r.selOk,
                                 !.nav = NavCall(q.idx, cfg.chartlist, cfg.chart_name, r),
                                 !.tab = NoCall]
             IN  /\ ctl' = [ctl EXCEPT ![q.c] = r.ctl]
                 /\ proc' = [proc EXCEPT ![p] = IF r.ret THEN [q1 EXCEPT !.pc = "tab"]
                                                ELSE NextRequest(q1)]
    /\ UNCHANGED <<sessions, hist, out, sel>>

\* The entry of opened_tabs for request idx: its tab (0: the main tab, idx:
\* the tab created for request idx) and whether its ChartStyle box was clicked.
TabEntry(idx, clicked) ==
    [idx |-> idx, page |-> IF idx > 1 THEN idx ELSE 0, box_clicked |-> clicked]

\* opened_tabs[key] = entry: an entry already under the key is replaced.
StoreEntry(tabs, key, entry) == (key :> entry) @@ tabs

\* (mutant) a request whose box could not be clicked is not recorded.
RecordedIfBoxClicked(e, box) == e = "ok" /\ box # "failed"

\* The request is recorded when no step of the second half raised; the value
\* _click_chartstyle_box returns is not looked at.
Recorded(e, box) == e = "ok"

\* How the ChartStyle box of a request went.
BoxStep(cfg, e, clicked) ==
    IF e # "ok" THEN "-"
    ELSE IF ~Truthy(cfg.timeframe_box) THEN "none"
    ELSE IF clicked THEN "clicked" ELSE "failed"

\* The second half of the loop body: the tab of the request (the main tab
\* for request #1, a new tab otherwise), the ChartStyle box, the screenshot
\* and the entry of opened_tabs. Any exception skips the rest.
BatchOpenTab(p) ==
    /\ p \in DOMAIN proc /\ proc[p].pc = "tab" /\ proc[p].kind = "excel"
    /\ LET q == proc[p]
           cfg == q.configs[q.idx]
       IN  \E e \in TabOutcomes(q.idx), clicked \in BoxResults(cfg) :
             /\ e # "ok" => ~clicked
             /\ LET box == BoxStep(cfg, e, clicked)
                    q1 == [q EXCEPT !.nav = NoCall,
                                    !.tab = [op |-> "tab", idx |-> q.idx, box |-> box, raised |-> e # "ok"],
                                    !.created = IF q.idx > 1 /\ e # "newpage_raises"
                                                 THEN @ \cup {q.idx} ELSE @,
                                    !.stored = IF Recorded(e, box) THEN @ \cup {q.idx} ELSE @,
                                    !.opened_tabs =
                                        IF Recorded(e, box)
                                        THEN StoreEntry(@, cfg.tab_order, TabEntry(q.idx, clicked))
                                        ELSE @]
                IN  proc' = [proc EXCEPT ![p] = NextRequest(q1)]
    /\ UNCHANGED <<ctl, sessions, hist, out, sel>>

\* What a finished batch reports: the map returned and the statistics logged.
BatchReport(q) ==
    [ op |-> "batch", kind |-> q.kind, c |-> q.c, loaded |-> TRUE, configs |-> q.configs,
      result |-> q.opened_tabs, cache_hits |-> q.cache_hits, cache_misses |-> q.cache_misses,
      opens |-> q.opens, selOk |-> q.selOk, navigated |-> q.navigated,
      fallbacks |-> q.fallbacks, created |-> q.created, stored |-> q.stored ]

\* The end of the loop: the summary is logged and opened_tabs is returned.
BatchReturn(p) ==
    /\ proc[p].pc = "nav" /\ proc[p].kind = "excel" /\ proc[p].idx > Len(proc[p].configs)
    /\ out' = BatchReport(proc[p])
    /\ proc' = [proc EXCEPT ![p].pc = "done"]
    /\ UNCHANGED <<ctl, sessions, hist, sel>>

\* The caller has the result and goes on.
BatchResume(p) ==
    /\ proc[p].pc = "done"
    /\ proc' = [proc EXCEPT ![p] = IdleProc]
    /\ out' = NoOut
    /\ UNCHANGED <<ctl, sessions, hist, sel>>

---------------------------------------------------------------------------
(* open_chartlists_as_tabs *)

\* open_chartlists_as_tabs(excel_path): the call of
\* reader.load_chartlist_names_only() raises, ChartListConfigReader having no
\* such method (or the construction of the reader raises on a missing file);
\* the handler of the outer try logs it and returns the empty map. Nothing
\* of the controller was touched.
OpenChartlistsAsTabs(p, c) ==
    /\ proc[p].pc = "idle" /\ c \in DOMAIN ctl /\ Free(c)
    /\ out' = [ op |-> "batch", kind |-> "viewer", c |-> c, loaded |-> FALSE,
                configs |-> <<>>, result |-> EmptyMap,
                navigated |-> {}, fallbacks |-> {}, created |-> {}, stored |-> {} ]
    /\ hist' = NoHist
    /\ UNCHANGED <<ctl, sessions, proc, sel>>

---------------------------------------------------------------------------
(* open_multi_timeframe_tabs *)

\* How open_multi_timeframe_tabs gets to its first tab: the ticker search
\* fails, the screenshot of the main tab raises, the pre-creation of tab
\* number at raises (the tabs 2..at-1 were created before it), or the main
\* tab is recorded and every further tab is pre-created.
FirstTabOutcomes(c, boxes) ==
    IF ~Started(c) THEN { [e |-> "enter_fails", at |-> 0] }
    ELSE { [e |-> x, at |-> 0] : x \in {"enter_fails", "shot_raises", "ok"} }
         \cup { [e |-> "newpage_raises", at |-> j] : j \in 2..Len(boxes) }

\* open_multi_timeframe_tabs(ticker, boxes) up to its loop over the
\* pre-created tabs: the controller, the map so far, the tabs created and
\* whether the call returns here. The result is keyed by the timeframe name,
\* which is a one-to-one function of the box number: the box number stands
\* for it.
MultiFirstTab(c, ticker, boxes, o) ==
    [ ctl |-> EnterTicker(c, ticker, IF o.e = "enter_fails" THEN "raises" ELSE "ok").ctl,
      pages |-> IF o.e \in {"enter_fails", "shot_raises"} THEN EmptyMap
                ELSE StoreEntry(EmptyMap, boxes[1], TabEntry(1, FALSE)),
      created |-> CASE o.e = "ok" -> 2..Len(boxes)
                    [] o.e = "newpage_raises" -> 2..(o.at - 1)
                    [] OTHER -> {},
      ended |-> o.e # "ok" ]

\* What open_multi_timeframe_tabs reports when it returns.
MultiReport(c, boxes, pages, created, stored) ==
    [ op |-> "multi", c |-> c, boxes |-> boxes, result |-> pages,
      created |-> created, stored |-> stored ]

\* open_multi_timeframe_tabs called directly, up to its loop (or to its
\* return).
MultiStart(p, c) ==
    /\ proc[p].pc = "idle" /\ c \in DOMAIN ctl /\ Free(c)
    /\ \E t \in Tickers, boxes \in {<<1>>, <<1, 4>>, <<1, 4, 7>>} :
         \E r \in { MultiFirstTab(ctl[c], t, boxes, e) : e \in FirstTabOutcomes(ctl[c], boxes) } :
            /\ ctl' = [ctl EXCEPT ![c] = r.ctl]
            /\ IF r.ended
               THEN /\ out' = MultiReport(c, boxes, r.pages, r.created, {})
                    /\ UNCHANGED proc
               ELSE /\ out' = NoOut
                    /\ proc' = [proc EXCEPT ![p] =
                           [IdleProc EXCEPT !.pc = "frame", !.kind = "multi", !.c = c,
                                            !.task = [NoTask EXCEPT !.boxes = boxes],
                                            !.idx = 2, !.opened_tabs = r.pages,
                                            !.created = r.created]]
    /\ hist' = NoHist
    /\ UNCHANGED <<sessions, sel>>

\* The loop body of open_multi_timeframe_tabs for one pre-created tab: the
\* navigation, the ChartStyle box, the screenshot and the entry of the result.
MultiTab(p) ==
    /\ p \in DOMAIN proc /\ proc[p].pc = "frame" /\ proc[p].idx <= Len(proc[p].task.boxes)
    /\ LET q == proc[p]
       IN  \E e \in {"goto_raises", "shot_raises", "ok"},
              clicked \in { ClickChartstyleBox(b).found : b \in BoxEnvs } :
             /\ e = "goto_raises" => ~clicked
             /\ proc' = [proc EXCEPT ![p] =
                    [q EXCEPT !.idx = q.idx + 1,
                              !.stored = IF e = "ok" THEN @ \cup {q.idx} ELSE @,
                              !.opened_tabs =
                                  IF e = "ok"
                                  THEN StoreEntry(@, q.task.boxes[q.idx], TabEntry(q.idx, clicked))
                                  ELSE @]]
    /\ UNCHANGED <<ctl, sessions, hist, out, sel>>

\* The end of the loop: the map is returned.
MultiReturn(p) ==
    /\ proc[p].pc = "frame" /\ proc[p].kind = "multi"
    /\ proc[p].idx > Len(proc[p].task.boxes)
    /\ out' = MultiReport(proc[p].c, proc[p].task.boxes, proc[p].opened_tabs,
                          proc[p].created, proc[p].stored)
    /\ proc' = [proc EXCEPT ![p].pc = "done"]
    /\ UNCHANGED <<ctl, sessions, hist, sel>>

---------------------------------------------------------------------------
(* The controller used on its own *)

Main == 1

Init ==
    /\ ctl = <<NewController("u", <<>>)>>
    /\ sessions = EmptyMap
    /\ proc = <<IdleProc>>
    /\ hist = NoHist
    /\ out = NoOut
    /\ sel = NoCall

Next ==
    \/ CtlInitialize(1)
    \/ CtlLogin(1)
    \/ CtlEnterTicker(1)
    \/ CtlNavigate(1)
    \/ CtlNavigateToChart(1)
    \/ CtlClose(1)
    \/ \E configs \in LoadedConfigs : BatchStart(Main, 1, configs)
    \/ \E file \in ConfigFiles : BatchRejected(Main, 1, file)
    \/ BatchNavigate(Main)
    \/ BatchOpenTab(Main)
    \/ BatchReturn(Main)
    \/ BatchResume(Main)
    \/ OpenChartlistsAsTabs(Main, 1)
    \/ MultiStart(Main, 1)
    \/ MultiTab(Main)
    \/ MultiReturn(Main)

Spec == Init /\ [][Next]_vars

---------------------------------------------------------------------------
(* BrowserSessionManager: the registry *)

SessionIds == {"s1", "s2"}

\* The largest number of controllers constructed in one run.
MaxCtl == 2

\* The arguments of create_session: credentials, headless and window_position.
CreateArgs ==
    { [username |-> "u1", headless |-> FALSE, window_position |-> <<>>],
      [username |-> "u2", headless |-> FALSE, window_position |-> <<"left">>],
      [username |-> "u1", headless |-> TRUE, window_position |-> <<"left">>] }

\* The window position create_session stores on the controller.
StoredPosition(a) ==
    IF a.window_position # <<>> /\ ~a.headless THEN a.window_position ELSE <<>>

\* The registry with one more entry.
Register(reg, id, i) == [x \in DOMAIN reg \cup {id} |-> IF x = id THEN i ELSE reg[x]]

\* (mutant) create_session replaces the controller of an id that exists.
CreateReplacing(reg, ctls, id, a) ==
    [ sessions |-> Register(reg, id, Len(ctls) + 1),
      ctl |-> Append(ctls, NewController(a.username, StoredPosition(a))),
      ret |-> Len(ctls) + 1 ]

\* BrowserSessionManager.create_session: the registry and the controllers
\* after the call, and the controller returned.
CreateSession(reg, ctls, id, a) ==
    IF id \in DOMAIN reg
    THEN [sessions |-> reg, ctl |-> ctls, ret |-> reg[id]]
    ELSE [ sessions |-> Register(reg, id, Len(ctls) + 1),
           ctl |-> Append(ctls, NewController(a.username, StoredPosition(a))),
           ret |-> Len(ctls) + 1 ]

\* (mutant) a positioning failure reaches the outer handler.
PositioningPropagates(po) == po = "raises"

\* Whether a failure of the window positioning ends initialize_session: it
\* is caught and logged where it happens.
PositioningAborts(po) == FALSE

\* A controller the registry no longer refers to.
Dropped == NewController("-", <<>>)

\* BrowserSessionManager.close_session: an exception of close() leaves the
\* call before the entry is deleted.
CloseSession(reg, ctls, id, o) ==
    IF id \notin DOMAIN reg THEN [sessions |-> reg, ctl |-> ctls, raised |-> FALSE]
    ELSE LET r == Close(ctls[reg[id]], o)
         IN  [ sessions |-> IF r.raised THEN reg ELSE [x \in DOMAIN reg \ {id} |-> reg[x]],
               ctl |-> [ctls EXCEPT ![reg[id]] = IF r.raised THEN r.ctl ELSE Dropped],
               raised |-> r.raised ]

\* (mutant) the closes are gathered without return_exceptions: the
\* exception of a close leaves the call before the registry is cleared.
CloseAllPropagating(reg, ctls, failed) ==
    IF failed = {}
    THEN [ sessions |-> EmptyMap,
           ctl |-> [i \in DOMAIN ctls |->
                      IF \E id \in DOMAIN reg : reg[id] = i THEN Dropped ELSE ctls[i]],
           raised |-> FALSE ]
    ELSE [sessions |-> reg, ctl |-> ctls, raised |-> TRUE]

\* BrowserSessionManager.close_all_sessions once the gathered closes have
\* ended, those of the sessions failed with an exception: gather was called
\* with return_exceptions=True, so the registry is cleared whatever they did.
CloseAllSessions(reg, ctls, failed) ==
    [ sessions |-> EmptyMap,
      ctl |-> [i \in DOMAIN ctls |->
                 IF \E id \in DOMAIN reg : reg[id] = i THEN Dropped ELSE ctls[i]],
      raised |-> FALSE ]

\* The caller of the manager is between two calls.
NoRun == proc = <<>>

MgrCreateSession ==
    /\ NoRun
    /\ \E id \in SessionIds, a \in CreateArgs :
         /\ id \in DOMAIN sessions \/ Len(ctl) < MaxCtl
         /\ LET r == CreateSession(sessions, ctl, id, a)
            IN  /\ sessions' = r.sessions
                /\ ctl' = r.ctl
                /\ out' = [ op |-> "create_session", id |-> id, args |-> a, ret |-> r.ret,
                            existed |-> id \in DOMAIN sessions ]
    /\ UNCHANGED <<proc, hist, sel>>

\* What a call of initialize_session(id, auto_login) reports when it
\* returns: the value returned and what happened on the way (whether
\* initialize() raised, the positioning raised, login() returned False).
\* Until the call returns the record is the call's own and tells how far
\* it went.
InitSessionReport(id, auto_login, known) ==
    [ op |-> "initialize_session", id |-> id, known |-> known, auto_login |-> auto_login,
      init_raised |-> FALSE, pos_raised |-> FALSE, login_failed |-> FALSE,
      ret |-> known, raised |-> FALSE ]

\* The calls but call p: a call that returned is no longer awaited.
Returned(p) == [i \in 1..(Len(proc) - 1) |-> IF i < p THEN proc[i] ELSE proc[i + 1]]

\* initialize_session(id, auto_login) up to the first assignment of
\* initialize(): the test of the id and the start of the Playwright driver.
\* The caller gathers one call per session, so the calls of different
\* sessions take turns at their awaits.
MgrInitializeSession ==
    /\ \A p \in DOMAIN proc : proc[p].kind = "init"
    /\ \E id \in SessionIds \ { proc[p].task.session_id : p \in DOMAIN proc },
          auto_login \in BOOLEAN :
         IF id \notin DOMAIN sessions
         THEN /\ out' = InitSessionReport(id, auto_login, FALSE)
              /\ UNCHANGED <<ctl, proc>>
         ELSE \E r \in { InitializeStep(ctl[sessions[id]], 0, o) : o \in InitOutcomes } :
                /\ ctl' = [ctl EXCEPT ![sessions[id]] = r.ctl]
                /\ IF r.ended
                   THEN /\ out' = [InitSessionReport(id, auto_login, TRUE) EXCEPT
                                      !.init_raised = r.raised, !.ret = ~r.raised]
                        /\ UNCHANGED proc
                   ELSE /\ proc' = Append(proc, [IdleProc EXCEPT
                                                   !.pc = "init", !.kind = "init", !.idx = 1,
                                                   !.c = sessions[id],
                                                   !.task = [NoTask EXCEPT !.session_id = id],
                                                   !.res = InitSessionReport(id, auto_login, TRUE)])
                        /\ out' = NoOut
    /\ UNCHANGED <<sessions, hist, sel>>

\* The next await of initialize() in a call of initialize_session: the
\* resource it assigns, or the exception that the handler of
\* initialize_session turns into False; after the last one initialize()
\* has returned and the window positioning is awaited.
MgrInitializeStep(p) ==
    /\ p \in DOMAIN proc /\ proc[p].kind = "init" /\ proc[p].pc = "init"
    /\ LET q == proc[p]
       IN  \E r \in { InitializeStep(ctl[q.c], q.idx, o) :
                        o \in { x \in InitOutcomes : Cardinality(MadeBy(x)) >= q.idx } } :
             /\ ctl' = [ctl EXCEPT ![q.c] = r.ctl]
             /\ IF r.raised
                THEN /\ out' = [q.res EXCEPT !.init_raised = TRUE, !.ret = FALSE]
                     /\ proc' = Returned(p)
                ELSE /\ proc' = [proc EXCEPT ![p] = IF r.ended THEN [q EXCEPT !.pc = "position"]
                                                     ELSE [q EXCEPT !.idx = q.idx + 1]]
                     /\ out' = NoOut
    /\ UNCHANGED <<sessions, hist, sel>>

\* The window positioning of initialize_session and, when no login is
\* asked for, the return of the call.
MgrInitializePosition(p) ==
    /\ p \in DOMAIN proc /\ proc[p].kind = "init" /\ proc[p].pc = "position"
    /\ LET q == proc[p]
       IN  \E po \in IF ctl[q.c].window_position # <<>> THEN {"ok", "raises"} ELSE {"-"} :
             LET report == [q.res EXCEPT !.pos_raised = (po = "raises"),
                                         !.ret = ~PositioningAborts(po)]
             IN  IF report.ret /\ report.auto_login
                 THEN /\ proc' = [proc EXCEPT ![p] = [q EXCEPT !.pc = "login", !.res = report]]
                      /\ out' = NoOut
                 ELSE /\ out' = report
                      /\ proc' = Returned(p)
    /\ UNCHANGED <<ctl, sessions, hist, sel>>

\* login() in a call of initialize_session(id, auto_login=True). After the
\* form login found a logged-in indicator the session state is saved before
\* login() returns; every other way out of login() returns at once.
MgrInitializeSessionLogin(p) ==
    /\ p \in DOMAIN proc /\ proc[p].kind = "init" /\ proc[p].pc = "login"
    /\ LET q == proc[p]
       IN  \E lo \in LoginEnvs(ctl[q.c]) :
             LET l == Login(ctl[q.c], lo)
                 report == [q.res EXCEPT !.login_failed = ~l.ret, !.ret = l.ret]
             IN  /\ ctl' = [ctl EXCEPT ![q.c] = l.ctl]
                 /\ IF l.form /\ lo = "indicator"
                    THEN /\ proc' = [proc EXCEPT ![p] = [q EXCEPT !.pc = "ret", !.res = report]]
                         /\ out' = NoOut
                    ELSE /\ out' = report
                         /\ proc' = Returned(p)
    /\ UNCHANGED <<sessions, hist, sel>>

\* The call of initialize_session returns after login() saved the session.
MgrInitializeSessionReturn(p) ==
    /\ p \in DOMAIN proc /\ proc[p].kind = "init" /\ proc[p].pc = "ret"
    /\ out' = proc[p].res
    /\ proc' = Returned(p)
    /\ UNCHANGED <<ctl, sessions, hist, sel>>

MgrCloseSession ==
    /\ NoRun
    /\ \E id \in SessionIds :
         IF id \notin DOMAIN sessions
         THEN /\ out' = [op |-> "close_session", id |-> id, known |-> FALSE, raised |-> FALSE]
              /\ UNCHANGED <<ctl, sessions>>
         ELSE \E r \in { CloseSession(sessions, ctl, id, o) : o \in CloseEnvs(ctl[sessions[id]]) } :
                       /\ sessions' = r.sessions
                       /\ ctl' = r.ctl
                       /\ out' = [ op |-> "close_session", id |-> id, known |-> TRUE,
                                   raised |-> r.raised ]
    /\ UNCHANGED <<proc, hist, sel>>

\* close_all_sessions up to the await of gather: one close() per registered
\* session, in the order of the registry.
MgrCloseAllSessions ==
    /\ NoRun
    /\ LET used == { sessions[id] : id \in DOMAIN sessions }
           Nth(k) == CHOOSE i \in used : Cardinality({ j \in used : j < i }) = k - 1
       IN  IF used = {}
           THEN /\ out' = [ op |-> "close_all_sessions", before |-> sessions,
                            closed |-> {}, failed |-> {}, raised |-> FALSE ]
                /\ UNCHANGED proc
           ELSE /\ proc' = [ k \in 1..Cardinality(used) |->
                               [IdleProc EXCEPT
                                  !.pc = "close", !.kind = "close", !.idx = 0, !.c = Nth(k),
                                  !.task = [NoTask EXCEPT !.session_id =
                                              CHOOSE id \in DOMAIN sessions : sessions[id] = Nth(k)]] ]
                /\ out' = NoOut
    /\ UNCHANGED <<ctl, sessions, hist, sel>>

\* The next await of a gathered close(): the resource it closes, or the
\* exception that ends this close() and that gather keeps.
MgrCloseStep(p) ==
    /\ p \in DOMAIN proc /\ proc[p].kind = "close" /\ proc[p].pc = "close"
    /\ LET q == proc[p]
       IN  \E r \in { CloseStep(ctl[q.c], q.idx, o) : o \in CloseEnvs(ctl[q.c]) } :
             /\ ctl' = [ctl EXCEPT ![q.c] = r.ctl]
             /\ proc' = [proc EXCEPT ![p] =
                           IF r.ended
                           THEN [q EXCEPT !.pc = "closed",
                                          !.res = [kind |-> IF r.raised THEN "raised" ELSE "ok"]]
                           ELSE [q EXCEPT !.idx = q.idx + 1]]
    /\ UNCHANGED <<sessions, hist, out, sel>>

\* Every gathered close() has ended: the registry is cleared and
\* close_all_sessions returns.
MgrCloseAllReturn ==
    /\ proc # <<>>
    /\ \A p \in DOMAIN proc : proc[p].kind = "close" /\ proc[p].pc = "closed"
    /\ LET failed == { proc[p].task.session_id : p \in { x \in DOMAIN proc : proc[x].res.kind = "raised" } }
           r == CloseAllSessions(sessions, ctl, failed)
       IN  /\ sessions' = r.sessions
           /\ ctl' = r.ctl
           /\ out' = [ op |-> "close_all_sessions", before |-> sessions,
                       closed |-> { proc[p].task.session_id : p \in DOMAIN proc },
                       failed |-> failed, raised |-> r.raised ]
    /\ proc' = <<>>
    /\ UNCHANGED <<hist, sel>>

---------------------------------------------------------------------------
(* BrowserSessionManager: run_parallel_tasks *)

\* The largest number of tasks of one run_parallel_tasks call.
MaxTasks == 2

\* A task dictionary without the key "task_type".
MissingType == "<missing>"

Task(sid, type, has_params, file, boxes) ==
    [ session_id |-> sid, task_type |-> type, has_params |-> has_params,
      file |-> file, boxes |-> boxes ]

\* The tasks: the three known types (the batch on files that load, on two
\* sessions, and on one that does not), an unknown type, a dictionary with
\* no task_type, and params = None.
TaskPool ==
    { Task("s1", "chartlist-batch", TRUE, <<Req(cl, "X", 1, <<>>)>>, <<>>) : cl \in ChartLists }
    \cup { Task("s2", "chartlist-batch", TRUE, <<Req("B", "Y", 1, <<>>)>>, <<>>),
           Task("s2", "chartlist-batch", TRUE, <<>>, <<>>),
           Task("s2", "chartlist-viewer", TRUE, <<>>, <<>>),
           Task("s2", "multi-timeframe", TRUE, <<>>, <<1, 4, 7>>),
           Task("s1", "chartlist-viewer", FALSE, <<>>, <<>>) }
    \cup { Task(sid, "bogus", TRUE, <<>>, <<>>) : sid \in SessionIds }
    \cup { Task(sid, MissingType, TRUE, <<>>, <<>>) : sid \in SessionIds }

\* The values run_task returns.
Error(msg) == [kind |-> "error", msg |-> msg, result |-> EmptyMap, count |-> 0]
Success(result) == [kind |-> "success", msg |-> "", result |-> result, count |-> Cardinality(DOMAIN result)]

\* The loop over the gathered task results from result i on: an exception
\* is logged, a (session_id, result) pair is stored under its session_id.
RECURSIVE Collect(_, _, _)
Collect(ps, i, results) ==
    IF i > Len(ps) THEN results
    ELSE Collect(ps, i + 1,
                 IF ps[i].res.kind = "raised" THEN results
                 ELSE Register(results, ps[i].task.session_id, ps[i].res))

\* run_parallel_tasks(tasks): one run_task coroutine per task is gathered;
\* an empty list returns the empty mapping at once.
MgrRunStart ==
    /\ NoRun
    /\ \E tasks \in UNION { [1..n -> TaskPool] : n \in 0..MaxTasks } :
         /\ proc' = [i \in 1..Len(tasks) |-> [IdleProc EXCEPT !.pc = "task", !.task = tasks[i]]]
         /\ out' = IF tasks = <<>>
                   THEN [ op |-> "run_parallel_tasks", tasks |-> <<>>, outcomes |-> <<>>,
                          results |-> EmptyMap ]
                   ELSE NoOut
    /\ UNCHANGED <<ctl, sessions, hist, sel>>

\* The coroutine of one task stops with the outcome res.
Finish(q, res) == [q EXCEPT !.pc = "fin", !.res = res]

\* run_task up to its return for a task that starts no operation: the
\* task_type is missing (the coroutine ends with the KeyError raised before
\* the try), the session is not registered, params is None, or the task
\* type is not a known one.
TaskRefuse(p) ==
    /\ p \in DOMAIN proc /\ proc[p].pc = "task"
    /\ LET t == proc[p].task
           known == {"chartlist-batch", "chartlist-viewer", "multi-timeframe"}
       IN  /\ \/ t.task_type = MissingType
              \/ t.session_id \notin DOMAIN sessions
              \/ ~t.has_params
              \/ t.task_type \notin known
           /\ proc' = [proc EXCEPT ![p] =
                  Finish(@, IF t.task_type = MissingType
                            THEN [ kind |-> "raised", msg |-> "KeyError",
                                   result |-> EmptyMap, count |-> 0 ]
                            ELSE IF t.session_id \notin DOMAIN sessions
                                 THEN Error("Session not found")
                            ELSE IF t.task_type \notin known THEN Error("Unknown task type")
                            ELSE Error("AttributeError"))]
    /\ UNCHANGED <<ctl, sessions, hist, out, sel>>

\* (mutant) every session id yields the controller of one session.
GetSessionShared(reg, id) == reg[CHOOSE x \in DOMAIN reg : TRUE]

\* get_session(session_id) for a registered id: the controller stored under it.
GetSession(reg, id) == reg[id]

\* Whether run_task starts the operation of the task.
Runs_(p, type) ==
    /\ p \in DOMAIN proc /\ proc[p].pc = "task"
    /\ proc[p].task.task_type = type
    /\ proc[p].task.session_id \in DOMAIN sessions
    /\ proc[p].task.has_params

\* run_task for a chartlist-batch task, up to the first await of
\* open_charts_from_excel (or to its return on a file that does not load).
TaskBatchStart(p) ==
    /\ Runs_(p, "chartlist-batch")
    /\ LET q == proc[p]
           c == GetSession(sessions, q.task.session_id)
           l == LoadChartConfigs(q.task.file)
       IN  IF ~l.ok
           THEN /\ proc' = [proc EXCEPT ![p] = Finish(q, Success(EmptyMap))]
                /\ UNCHANGED ctl
           ELSE /\ ctl' = [ctl EXCEPT ![c] = ResetCache(ctl[c])]
                /\ proc' = [proc EXCEPT ![p] = [q EXCEPT !.pc = "hub", !.kind = "excel", !.c = c,
                                                        !.configs = l.configs, !.idx = 1]]
    /\ UNCHANGED <<sessions, hist, out, sel>>

\* run_task for a chartlist-viewer task: open_chartlists_as_tabs raises at
\* its call of load_chartlist_names_only before it touches the controller,
\* catches that and returns the empty map; run_task reports a success with
\* no tab.
TaskViewer(p) ==
    /\ Runs_(p, "chartlist-viewer")
    /\ proc' = [proc EXCEPT ![p] = Finish(@, Success(EmptyMap))]
    /\ UNCHANGED <<ctl, sessions, hist, out, sel>>

\* The await of enter_ticker_in_search_box("AMZN") that
\* open_charts_from_excel starts with, up to its loop.
TaskEnterHub(p) ==
    /\ p \in DOMAIN proc /\ proc[p].pc = "hub" /\ proc[p].kind = "excel"
    /\ LET q == proc[p]
       IN  /\ \E et \in EnterEnvs(ctl[q.c]) :
                ctl' = [ctl EXCEPT ![q.c] = EnterTicker(ctl[q.c], Hub, et).ctl]
           /\ proc' = [proc EXCEPT ![p] = [q EXCEPT !.pc = "nav"]]
    /\ UNCHANGED <<sessions, hist, out, sel>>

\* run_task for a multi-timeframe task, up to the loop of
\* open_multi_timeframe_tabs over the pre-created tabs (or to its return).
TaskMultiStart(p) ==
    /\ Runs_(p, "multi-timeframe")
    /\ LET q == proc[p]
           c == GetSession(sessions, q.task.session_id)
           boxes == q.task.boxes
       IN  \E r \in { MultiFirstTab(ctl[c], "X", boxes, e) : e \in FirstTabOutcomes(ctl[c], boxes) } :
             /\ ctl' = [ctl EXCEPT ![c] = r.ctl]
             /\ proc' = [proc EXCEPT ![p] =
                    IF r.ended THEN Finish(q, Success(r.pages))
                    ELSE [q EXCEPT !.pc = "frame", !.kind = "multi", !.c = c,
                                   !.idx = 2, !.opened_tabs = r.pages,
                                   !.created = r.created]]
    /\ UNCHANGED <<sessions, hist, out, sel>>

\* The first half of the loop body up to the first await of
\* navigate_via_chartlist_dropdown: the cache statistics and the cache read
\* of the call. Other coroutines run before the call goes on.
TaskNavigateRead(p) ==
    /\ p \in DOMAIN proc /\ proc[p].pc = "nav" /\ proc[p].kind = "excel"
    /\ proc[p].idx <= Len(proc[p].configs)
    /\ LET q == proc[p]
           cfg == q.configs[q.idx]
           was_cached == WasCached(ctl[q.c], cfg.chartlist)
           need == ctl[q.c].current_chartlist # cfg.chartlist
       IN  proc' = [proc EXCEPT ![p] =
                       [q EXCEPT !.pc = IF need THEN "sel" ELSE "chart",
                                 !.cache_hits = IF was_cached THEN @ + 1 ELSE @,
                                 !.cache_misses = IF was_cached THEN @ ELSE @ + 1,
                                 !.need_chartlist_switch = need,
                                 !.navigated = @ \cup {q.idx},
                                 !.nav = NoCall,
                                 !.tab = NoCall]]
    /\ UNCHANGED <<ctl, sessions, hist, out, sel>>

\* The ChartList step of a call that read a cache miss: the awaits on the
\* dropdown up to the click on the entry, and the cache write that follows
\* the click with no await between. A step that fails hands over to
\* navigate_to_chart, which tests is_logged_in, as login() does again,
\* before the first await of either. No state of the controller is read or
\* written between the awaits of this step.
TaskSelectChartList(p) ==
    /\ p \in DOMAIN proc /\ proc[p].pc = "sel" /\ proc[p].kind = "excel"
    /\ LET q == proc[p]
           cfg == q.configs[q.idx]
       IN  \E x \in IF Started(ctl[q.c]) THEN ClOutcomes ELSE {"toggle_missing"} :
             LET c1 == [ctl[q.c] EXCEPT !.current_chartlist =
                           CacheAfterSelect(ctl[q.c], cfg.chartlist, [cl |-> x])]
             IN  /\ ctl' = [ctl EXCEPT ![q.c] = c1]
                 /\ proc' = [proc EXCEPT ![p] =
                        [q EXCEPT !.pc = IF Selected(x) THEN "chart"
                                         ELSE IF c1.is_logged_in THEN "goto" ELSE "login",
                                  !.opens = IF x # "toggle_missing" THEN @ + 1 ELSE @,
                                  !.selOk = @ /\ Selected(x),
                                  !.fallbacks = IF Selected(x) THEN @ ELSE @ \cup {q.idx}]]
    /\ UNCHANGED <<sessions, hist, out, sel>>

\* The Chart step of the call: the awaits on the Chart dropdown up to the
\* click on the entry and the waits after it; the call returns True, or a
\* step that fails hands over to navigate_to_chart.
TaskSelectChart(p) ==
    /\ p \in DOMAIN proc /\ proc[p].pc = "chart" /\ proc[p].kind = "excel"
    /\ LET q == proc[p]
       IN  \E x \in IF Started(ctl[q.c]) THEN ChOutcomes ELSE {"toggle_missing"} :
             proc' = [proc EXCEPT ![p] =
                         [q EXCEPT !.pc = IF Selected(x) THEN "tab"
                                          ELSE IF ctl[q.c].is_logged_in THEN "goto"
                                          ELSE "login",
                                   !.fallbacks = IF Selected(x) THEN @ ELSE @ \cup {q.idx}]]
    /\ UNCHANGED <<ctl, sessions, hist, out, sel>>

\* The form login of navigate_to_chart on a controller the call found not
\* logged in: a login that fails makes the call return False, and the
\* request is skipped.
TaskDirectLogin(p) ==
    /\ p \in DOMAIN proc /\ proc[p].pc = "login" /\ proc[p].kind = "excel"
    /\ LET q == proc[p]
       IN  \E r \in { FormLogin(ctl[q.c], lo) :
                        lo \in IF Started(ctl[q.c]) THEN LoginOutcomes ELSE {"exception"} } :
             /\ ctl' = [ctl EXCEPT ![q.c] = r.ctl]
             /\ proc' = [proc EXCEPT ![p] = IF r.ret THEN [q EXCEPT !.pc = "goto"]
                                            ELSE NextRequest(q)]
    /\ UNCHANGED <<sessions, hist, out, sel>>

\* The URL navigation of navigate_to_chart and the write of current_ticker
\* after it; an exception makes the call return False, and the request is
\* skipped.
TaskDirectGoto(p) ==
    /\ p \in DOMAIN proc /\ proc[p].pc = "goto" /\ proc[p].kind = "excel"
    /\ LET q == proc[p]
           cfg == q.configs[q.idx]
       IN  \E g \in IF Started(ctl[q.c]) THEN {"ok", "raises"} ELSE {"raises"} :
             /\ ctl' = [ctl EXCEPT ![q.c] =
                           IF g = "ok" THEN [@ EXCEPT !.current_ticker = cfg.chart_name] ELSE @]
             /\ proc' = [proc EXCEPT ![p] = IF g = "ok" THEN [q EXCEPT !.pc = "tab"]
                                            ELSE NextRequest(q)]
    /\ UNCHANGED <<sessions, hist, out, sel>>

\* The operation of the task returns and run_task returns its success entry.
TaskReturn(p) ==
    /\ p \in DOMAIN proc
    /\ LET q == proc[p]
       IN  /\ \/ q.pc = "nav" /\ q.idx > Len(q.configs)
              \/ q.pc = "frame" /\ q.idx > Len(q.task.boxes)
           /\ proc' = [proc EXCEPT ![p] = Finish(q, Success(q.opened_tabs))]
    /\ UNCHANGED <<ctl, sessions, hist, out, sel>>

\* Every gathered coroutine has ended: the results are collected in task
\* order and returned.
MgrRunCollect ==
    /\ proc # <<>>
    /\ \A p \in DOMAIN proc : proc[p].pc = "fin"
    /\ out' = [ op |-> "run_parallel_tasks",
                tasks |-> [i \in DOMAIN proc |-> proc[i].task],
                outcomes |-> [i \in DOMAIN proc |-> proc[i].res],
                results |-> Collect(proc, 1, EmptyMap) ]
    /\ proc' = [i \in DOMAIN proc |-> [proc[i] EXCEPT !.pc = "done"]]
    /\ UNCHANGED <<ctl, sessions, hist, sel>>

MgrInit ==
    /\ ctl = <<>>
    /\ sessions = EmptyMap
    /\ proc = <<>>
    /\ hist = NoHist
    /\ out = NoOut
    /\ sel = NoCall

MgrNext ==
    \/ MgrCreateSession
    \/ MgrInitializeSession
    \/ \E p \in 1..MaxCtl :
         \/ MgrInitializeStep(p)
         \/ MgrInitializePosition(p)
         \/ MgrInitializeSessionLogin(p)
         \/ MgrInitializeSessionReturn(p)
    \/ MgrCloseSession
    \/ MgrCloseAllSessions
    \/ \E p \in 1..MaxCtl : MgrCloseStep(p)
    \/ MgrCloseAllReturn

MgrSpec == MgrInit /\ [][MgrNext]_vars

\* The controllers that create_session and initialize_session leave behind
\* for session number i, created with the window position of its half of
\* the monitor: initialize() ended at any of its stages (one that raised
\* leaves the controller with the resources made so far, and the controller
\* stays registered), and the login of a started controller succeeded or not.
SetupControllers(i) ==
    LET new == NewController("u1", IF i = 1 THEN <<"left">> ELSE <<"right">>)
    IN  { Initialize(new, o).ctl : o \in InitOutcomes }
        \cup { Login(Initialize(new, "fresh").ctl, "indicator").ctl }

\* parallel_chartlist_execution after the sessions were created and
\* initialized: it calls run_parallel_tasks whatever the initializations
\* returned.
RunInit ==
    /\ \E n \in 0..MaxCtl :
         /\ ctl \in { f \in [1..n -> UNION { SetupControllers(i) : i \in 1..MaxCtl }] :
                        \A i \in 1..n : f[i] \in SetupControllers(i) }
         /\ sessions = [id \in { x \in SessionIds : (IF x = "s1" THEN 1 ELSE 2) <= n } |->
                           IF id = "s1" THEN 1 ELSE 2]
    /\ proc = <<>>
    /\ hist = NoHist
    /\ out = NoOut
    /\ sel = NoCall

RunNext ==
    \/ MgrRunStart
    \/ \E p \in 1..MaxTasks :
         \/ TaskRefuse(p)
         \/ TaskBatchStart(p)
         \/ TaskViewer(p)
         \/ TaskMultiStart(p)
         \/ TaskEnterHub(p)
         \/ TaskNavigateRead(p)
         \/ TaskSelectChartList(p)
         \/ TaskSelectChart(p)
         \/ TaskDirectLogin(p)
         \/ TaskDirectGoto(p)
         \/ BatchOpenTab(p)
         \/ MultiTab(p)
         \/ TaskReturn(p)
    \/ MgrRunCollect

RunSpec == RunInit /\ [][RunNext]_vars

---------------------------------------------------------------------------
(* main.py: one run of chartlist_batch_viewer *)

\* The run is at position pc of chartlist_batch_viewer.
At(pc) == proc[Main].pc = pc

\* The run goes to position pc.
Goto(pc) == proc' = [proc EXCEPT ![Main].pc = pc]

\* await browser.initialize(): an exception leaves the try block.
RunInitialize ==
    /\ At("boot")
    /\ \E o \in InitOutcomes :
         LET r == Initialize(ctl[Main], o)
         IN  /\ ctl' = [ctl EXCEPT ![Main] = r.ctl]
             /\ Goto(IF r.raised THEN "finally" ELSE "login")
    /\ UNCHANGED <<sessions, hist, out, sel>>

\* await browser.login(): the run returns when it fails.
RunLogin ==
    /\ At("login")
    /\ \E r \in { Login(ctl[Main], lo) : lo \in LoginOutcomes } :
         /\ ctl' = [ctl EXCEPT ![Main] = r.ctl]
         /\ Goto(IF r.ret THEN "batch" ELSE "finally")
    /\ UNCHANGED <<sessions, hist, out, sel>>

\* open_charts_from_excel up to its loop (or to its return of the empty map
\* on a file that does not load, after which the run ends). The Excel files
\* of the runs: one that has no valid row, one request, two requests in two
\* ChartLists.
RunBatchStart ==
    /\ At("batch")
    /\ \E file \in { <<>>,
                     <<Req("A", "X", 1, <<>>)>>,
                     <<Req("A", "Y", 2, <<4>>), Req("B", "Z", 3, <<>>)>> } :
         LET l == LoadChartConfigs(file)
         IN  IF ~l.ok
             THEN Goto("finally") /\ UNCHANGED ctl
             ELSE /\ \E et \in EnterEnvs(ctl[Main]) :
                       ctl' = [ctl EXCEPT ![Main] = BatchPrelude(ctl[Main], et)]
                  /\ proc' = [proc EXCEPT ![Main] =
                         [@ EXCEPT !.pc = "nav", !.kind = "excel", !.c = Main,
                                   !.configs = l.configs, !.idx = 1]]
    /\ UNCHANGED <<sessions, hist, out, sel>>

\* open_charts_from_excel returns: the run waits for the operator when a tab
\* was opened and ends otherwise.
RunBatchReturn ==
    /\ At("nav") /\ proc[Main].idx > Len(proc[Main].configs)
    /\ Goto(IF DOMAIN proc[Main].opened_tabs # {} THEN "wait" ELSE "finally")
    /\ UNCHANGED <<ctl, sessions, hist, out, sel>>

\* The operator presses Enter.
RunContinue ==
    /\ At("wait")
    /\ Goto("finally")
    /\ UNCHANGED <<ctl, sessions, hist, out, sel>>

\* The operator interrupts the run: the pending await is cancelled. The
\* cancellation leaves the try block with what the step had written so far,
\* or a bare except: around the await swallows it and the run goes on (in
\* initialize() the one bare except: is around the verification of the
\* stored session, which then counts as failed). At the operator's prompt
\* the first interrupt only marks the run, a second one ends the wait. In
\* the finally block the interrupt cancels the pending close of close(),
\* which has no handler: the resource and those after it stay open, and the
\* run ends with the interrupt.
RunInterrupt ==
    /\ out' = [op |-> "interrupted"]
    /\ \/ /\ At("boot")
          /\ \E o \in (InitOutcomes \ InitReturns) \cup {"verify_raises"} :
               LET r == Initialize(ctl[Main], o)
               IN  /\ ctl' = [ctl EXCEPT ![Main] = r.ctl]
                   /\ Goto(IF r.raised THEN "finally" ELSE "login")
       \/ /\ proc[Main].pc \in {"login", "batch", "nav", "tab", "wait"}
          /\ UNCHANGED <<ctl, proc>>
       \/ /\ At("login")
          /\ \E r \in { Login(ctl[Main], lo) : lo \in LoginOutcomes } :
               ctl' = [ctl EXCEPT ![Main] = r.ctl]
          /\ Goto("finally")
       \/ /\ At("batch")
          /\ \E c1 \in {ResetCache(ctl[Main])}
                       \cup { BatchPrelude(ctl[Main], et) : et \in EnterEnvs(ctl[Main]) } :
               ctl' = [ctl EXCEPT ![Main] = c1]
          /\ Goto("finally")
       \/ /\ At("nav") /\ proc[Main].idx <= Len(proc[Main].configs)
          /\ LET q == proc[Main]
                 cfg == q.configs[q.idx]
             IN  \E c1 \in {ctl[Main]}
                           \cup { NavigateViaChartlistDropdown(ctl[Main], cfg.chartlist,
                                                               cfg.chart_name, o).ctl :
                                    o \in NavEnvs(ctl[Main], ~WasCached(ctl[Main], cfg.chartlist)) } :
                   ctl' = [ctl EXCEPT ![Main] = c1]
          /\ Goto("finally")
       \/ /\ proc[Main].pc \in {"tab", "wait"}
          /\ Goto("finally")
          /\ UNCHANGED ctl
       \/ /\ At("finally")
          /\ \E o \in CloseEnvs(ctl[Main]) \ {"ok"} :
               ctl' = [ctl EXCEPT ![Main] = Close(ctl[Main], o).ctl]
          /\ Goto("exited")
    /\ UNCHANGED <<sessions, hist, sel>>

\* finally: await browser.close(); the run has ended, with or without the
\* exception of close().
RunFinally ==
    /\ At("finally")
    /\ \E r \in { Close(ctl[Main], o) : o \in CloseEnvs(ctl[Main]) } :
         ctl' = [ctl EXCEPT ![Main] = r.ctl]
    /\ Goto("exited")
    /\ UNCHANGED <<sessions, hist, out, sel>>

MainInit ==
    /\ ctl = <<NewController("u", <<>>)>>
    /\ sessions = EmptyMap
    /\ proc = <<[IdleProc EXCEPT !.pc = "boot"]>>
    /\ hist = NoHist
    /\ out = NoOut
    /\ sel = NoCall

MainNext ==
    \/ RunInitialize
    \/ RunLogin
    \/ RunBatchStart
    \/ BatchNavigate(Main)
    \/ BatchOpenTab(Main)
    \/ RunBatchReturn
    \/ RunContinue
    \/ RunInterrupt
    \/ RunFinally

\* What the awaits of the run guarantee. initialize(), login(), the steps
\* of the batch and close() hold awaits that take no timeout, and the prompt
\* waits as long as the operator does: a step that is enabled need not ever
\* end. The return of open_charts_from_excel after its loop holds no await.
MainSpec == MainInit /\ [][MainNext]_vars /\ WF_vars(RunBatchReturn)

---------------------------------------------------------------------------
(* WindowPositioner *)

\* The largest number of windows asked for.
MaxWindows == 5

\* The monitors: widths, heights and origins (a monitor of one pixel, odd and
\* even sizes, the default 1920x1080, a second monitor to the left).
MonitorWidths == {1, 2, 3, 1920, 1921}
MonitorHeights == {1, 2, 1080, 1081}

\* The offset between two cascaded windows and their largest size.
CascadeOffset == 50
MaxCascadeWidth == 1200
MaxCascadeHeight == 800

Rect(x, y, w, h) == [x |-> x, y |-> y, width |-> w, height |-> h]

Min(a, b) == IF a <= b THEN a ELSE b

\* (mutant) the half is rounded up.
HalfRoundedUp(v) == (v + 1) \div 2

\* monitor_width // 2 and monitor_height // 2
HalfOf(v) == v \div 2

\* WindowPositioner.get_split_screen_positions
GetSplitScreenPositions(n, w, h, x, y) ==
    IF n = 1 THEN <<Rect(x, y, w, h)>>
    ELSE IF n = 2
    THEN <<Rect(x, y, HalfOf(w), h), Rect(x + HalfOf(w), y, HalfOf(w), h)>>
    ELSE IF n <= 4
    THEN SubSeq(<< Rect(x, y, HalfOf(w), HalfOf(h)),
                   Rect(x + HalfOf(w), y, HalfOf(w), HalfOf(h)),
                   Rect(x, y + HalfOf(h), HalfOf(w), HalfOf(h)),
                   Rect(x + HalfOf(w), y + HalfOf(h), HalfOf(w), HalfOf(h)) >>, 1, n)
    ELSE [ k \in 1..n |->
             Rect(x + (k - 1) * CascadeOffset, y + (k - 1) * CascadeOffset,
                  Min(w - (k - 1) * CascadeOffset, MaxCascadeWidth),
                  Min(h - (k - 1) * CascadeOffset, MaxCascadeHeight)) ]

\* get_split_screen_positions is called.
CallGetSplitScreenPositions ==
    /\ \E n \in 1..MaxWindows, w \in MonitorWidths, h \in MonitorHeights,
          x \in {0 - 1920, 0, 100}, y \in {0, 50} :
         out' = [ op |-> "positions", n |-> n, w |-> w, h |-> h, x |-> x, y |-> y,
                  res |-> GetSplitScreenPositions(n, w, h, x, y) ]
    /\ UNCHANGED <<ctl, sessions, proc, hist, sel>>

PosSpec == MgrInit /\ [][CallGetSplitScreenPositions]_vars

---------------------------------------------------------------------------
(* The selector resolutions on their own *)

\* _click_chartstyle_box(page, box) on a page whose selectors answer outs.
CallClickChartstyleBox ==
    /\ \E outs \in BoxEnvs :
         sel' = [op |-> "click_box", outs |-> outs, res |-> ClickChartstyleBox(outs)]
    /\ UNCHANGED <<ctl, sessions, proc, hist, out>>

\* get_chart_element() on a page whose selectors answer outs.
CallGetChartElement ==
    /\ \E outs \in ChartEnvs :
         sel' = [op |-> "get_chart_element", outs |-> outs, res |-> GetChartElement(outs)]
    /\ UNCHANGED <<ctl, sessions, proc, hist, out>>

SelNext == CallClickChartstyleBox \/ CallGetChartElement

SelSpec == Init /\ [][SelNext]_vars

---------------------------------------------------------------------------
(* ChartListConfigReader on the cells of a workbook *)

\* The largest number of data rows of a workbook.
MaxRows == 2

\* A cell of the sheet as pandas.read_excel hands it over: a blank cell is
\* NaN, a numeric cell is an int n when its value is whole and the float
\* n + 1/2 otherwise, a text cell is the str s.
Blank == [t |-> "blank", n |-> 0, frac |-> FALSE, s |-> ""]
Num(n) == [t |-> "int", n |-> n, frac |-> FALSE, s |-> ""]
Frac(n) == [t |-> "float", n |-> n, frac |-> TRUE, s |-> ""]
Text(s) == [t |-> "text", n |-> 0, frac |-> FALSE, s |-> s]

\* The float n.0 a whole number becomes in a column of dtype float64.
Whole(n) == [t |-> "float", n |-> n, frac |-> FALSE, s |-> ""]

\* pd.notna
NotNa(v) == v.t # "blank"

\* str.strip on the texts of the sheets.
Strip(s) ==
    CASE s = "   " -> ""
      [] s = " A " -> "A"
      [] OTHER -> s

\* int(): of an int the int, of a non-negative float its whole part, of a
\* str the number it spells; <<>> stands for the ValueError.
IntOf(v) ==
    CASE v.t = "int" -> <<v.n>>
      [] v.t = "float" -> <<v.n>>
      [] v.t = "text" -> (IF v.s = "3" THEN <<3>> ELSE <<>>)

Columns == {"ChartList", "ChartName", "TabOrder", "TimeframeBox", "Notes"}

RequiredCols == {"ChartList", "ChartName", "TabOrder"}

\* The columns of a sheet after the renaming: all five, the required three,
\* and a sheet without TabOrder.
Headers == { Columns, RequiredCols, {"ChartList", "ChartName", "Notes"} }

Row(cl, ch, t, box, notes) ==
    [ChartList |-> cl, ChartName |-> ch, TabOrder |-> t, TimeframeBox |-> box, Notes |-> notes]

\* The rows the sheets are made of: plain rows, a row without TabOrder and
\* with spaces around the name, TabOrder cells holding the texts "abc" and
\* "3" and the number 2.5, a TimeframeBox cell holding a text, rows with a
\* blank name and rows with a name of spaces only.
RowPool ==
    { Row(Text("A"), Text("X"), Num(1), Blank, Blank),
      Row(Text("A"), Text("X"), Num(2), Num(7), Text("n")),
      Row(Text(" A "), Text("X"), Blank, Blank, Blank),
      Row(Text("A"), Text("X"), Text("abc"), Blank, Blank),
      Row(Text("A"), Text("X"), Text("3"), Blank, Blank),
      Row(Text("A"), Text("X"), Frac(2), Blank, Blank),
      Row(Text("A"), Text("X"), Num(1), Text("abc"), Blank),
      Row(Blank, Text("X"), Num(1), Blank, Blank),
      Row(Text("A"), Blank, Num(1), Blank, Blank),
      Row(Text("   "), Text("X"), Num(1), Blank, Blank),
      Row(Text("A"), Text("   "), Num(3), Blank, Blank) }

\* The workbooks: a header and up to MaxRows rows; the cells of a column the
\* sheet does not have are blank.
Sheets ==
    { sh \in [ header : Headers,
               rows : UNION { [1..n -> RowPool] : n \in 0..MaxRows } ] :
        \A i \in 1..Len(sh.rows) : \A col \in Columns \ sh.header :
            ~NotNa(sh.rows[i][col]) }

\* A column of whole numbers and blanks is read with dtype float64: the whole
\* numbers arrive as floats.
Cell(sh, i, col) ==
    LET v == sh.rows[i][col]
        others == { sh.rows[j][col] : j \in 1..Len(sh.rows) }
    IN  IF v.t = "int" /\ Blank \in others /\ \A w \in others : w.t # "text"
        THEN Whole(v.n) ELSE v

\* 'tab_order': int(row['TabOrder']) if pd.notna(row['TabOrder']) else 999
TabOrderOf(v) == IF NotNa(v) THEN IntOf(v) ELSE <<999>>

\* 'timeframe_box': int(...) if the column is there and the cell is not NaN,
\* else None; <<<<>>>> is None, <<>> the ValueError.
BoxOf(header, v) ==
    IF "TimeframeBox" \in header /\ NotNa(v)
    THEN (IF IntOf(v) = <<>> THEN <<>> ELSE <<IntOf(v)>>)
    ELSE << <<>> >>

\* (mutant) the notes are not read.
NotesDropped(header, v) == ""

\* 'notes': str(row['Notes']) if the column is there and the cell is not NaN
NotesOf(header, v) == IF "Notes" \in header /\ NotNa(v) THEN v.s ELSE ""

\* df.dropna(subset=['ChartList', 'ChartName']): the indices of the rows kept.
RECURSIVE KeptRows(_, _)
KeptRows(sh, i) ==
    IF i > Len(sh.rows) THEN <<>>
    ELSE IF NotNa(sh.rows[i].ChartList) /\ NotNa(sh.rows[i].ChartName)
    THEN <<i>> \o KeptRows(sh, i + 1)
    ELSE KeptRows(sh, i + 1)

Config(cl, ch, t, box, notes) ==
    [chartlist |-> cl, chart_name |-> ch, tab_order |-> t, timeframe_box |-> box, notes |-> notes]

\* The dict built of row i (the name cells are texts).
ConfigOf(sh, i) ==
    Config(Strip(Cell(sh, i, "ChartList").s), Strip(Cell(sh, i, "ChartName").s),
           TabOrderOf(Cell(sh, i, "TabOrder"))[1],
           BoxOf(sh.header, Cell(sh, i, "TimeframeBox"))[1],
           NotesOf(sh.header, Cell(sh, i, "Notes")))

\* Building the dict of row i raises.
RowRaises(sh, i) ==
    \/ TabOrderOf(Cell(sh, i, "TabOrder")) = <<>>
    \/ BoxOf(sh.header, Cell(sh, i, "TimeframeBox")) = <<>>

\* ChartListConfigReader.load_chart_configs on a sheet: every exception is
\* logged and raised again.
LoadRows(sh) ==
    LET kept == KeptRows(sh, 1)
        failed == [ok |-> FALSE, configs |-> <<>>]
    IN  IF ~(RequiredCols \subseteq sh.header) THEN failed
        ELSE IF kept = <<>> THEN failed
        ELSE IF \E k \in 1..Len(kept) : RowRaises(sh, kept[k]) THEN failed
        ELSE [ ok |-> TRUE,
               configs |-> SortByTabOrder([k \in 1..Len(kept) |-> ConfigOf(sh, kept[k])]) ]

\* The sample rows create_template declares.
TemplateData ==
    << Config("My Watchlist", "AAPL", 1, <<>>, "Check resistance at 180"),
       Config("My Watchlist", "MSFT", 2, <<>>, "Earnings next week"),
       Config("Tech Stocks", "NVDA", 3, <<7>>, "60min chart - watch volume"),
       Config("Energy Sector", "XLE", 4, <<>>, "Oil sector ETF"),
       Config("Small Caps", "AEIS", 5, <<10>>, "5min chart - day trade setup") >>

\* pd.DataFrame(template_data).to_excel: a str is written as a text cell, a
\* number as a numeric cell and None (NaN in the frame) as a blank cell.
CreateTemplate ==
    [ header |-> Columns,
      rows |-> [ i \in 1..Len(TemplateData) |->
                   LET d == TemplateData[i]
                   IN  Row(Text(d.chartlist), Text(d.chart_name), Num(d.tab_order),
                           IF d.timeframe_box = <<>> THEN Blank ELSE Num(d.timeframe_box[1]),
                           Text(d.notes)) ] ]

\* load_chart_configs is called on a workbook.
CallLoadChartConfigs ==
    /\ out.op = "workbook"
    /\ out' = [op |-> "load_chart_configs", sheet |-> out.sheet, res |-> LoadRows(out.sheet)]
    /\ UNCHANGED <<ctl, sessions, proc, hist, sel>>

\* main() of excel_reader.py: create_template, then load_chart_configs on the
\* file it wrote.
TemplateRoundTrip ==
    /\ out.op = "template_path"
    /\ out' = [op |-> "template", sheet |-> CreateTemplate, res |-> LoadRows(CreateTemplate)]
    /\ UNCHANGED <<ctl, sessions, proc, hist, sel>>

XlsInit ==
    /\ ctl = <<>>
    /\ sessions = EmptyMap
    /\ proc = <<>>
    /\ hist = NoHist
    /\ sel = NoCall
    /\ out \in { [op |-> "workbook", sheet |-> sh] : sh \in Sheets }
                 \cup { [op |-> "template_path"] }

XlsNext == CallLoadChartConfigs \/ TemplateRoundTrip

XlsSpec == XlsInit /\ [][XlsNext]_vars

---------------------------------------------------------------------------
(* open_charts_from_excel and the awaits that take no timeout *)

\* The largest request list of the runs checked for termination.
MaxBatchReqs == 2

\* One controller is started and open_charts_from_excel is called on it;
\* the caller keeps the map returned.
TermNext ==
    \/ CtlInitialize(1)
    \/ \E configs \in { l \in LoadedConfigs : Len(l) <= MaxBatchReqs } : BatchStart(Main, 1, configs)
    \/ \E file \in ConfigFiles : BatchRejected(Main, 1, file)
    \/ BatchNavigate(Main)
    \/ BatchOpenTab(Main)
    \/ BatchReturn(Main)

\* What the awaits of the code guarantee. The steps of the loop hold awaits
\* that take no timeout (page.query_selector in the navigation,
\* context.new_page, locator.count and add_style_tag in the second half of
\* the body): a step that is enabled need not ever end. The return after
\* the loop holds no await: it is taken once the loop has ended.
TermSpec ==
    /\ Init
    /\ [][TermNext]_vars
    /\ WF_vars(BatchReturn(Main))

---------------------------------------------------------------------------
(* Properties of the ChartList cache and of the batch operations *)

\* The two most recent operations were navigate_via_chartlist_dropdown calls
\* on the same controller with the same ChartList name.
TwoCallsSameChartList ==
    /\ hist.prev.op = "nav" /\ hist.last.op = "nav"
    /\ hist.prev.c = hist.last.c /\ hist.prev.cl = hist.last.cl

SecondCallIsHit ==
    /\ hist.last.hit
    /\ hist.last.toggleClicks = 0 /\ hist.last.entryClicks = 0
    /\ hist.prev.toggleClicks + hist.last.toggleClicks <= 1
    /\ hist.prev.entryClicks + hist.last.entryClicks <= 1

\* C1 as stated: of two consecutive calls with the same ChartList the second
\* is always a cache hit that clicks neither the ChartList toggle nor an
\* entry, so that both calls together interact with the dropdown at most once.
C1_SecondCallAlwaysHit == TwoCallsSameChartList => SecondCallIsHit

\* C1 amended: when the ChartList step of the first call succeeded (a cache
\* hit, or the click on the entry was issued without raising), the second
\* call is a cache hit, clicks neither the ChartList toggle nor an entry, and
\* both calls together click the toggle and an entry at most once each.
C1_SecondCallHitAfterSelection ==
    (TwoCallsSameChartList /\ hist.prev.selOk) => SecondCallIsHit

\* Two calls for the same ChartList, the first of which opened the dropdown
\* and selected the entry, the second of which was a hit.
C1_Witness ==
    /\ TwoCallsSameChartList /\ hist.prev.selOk
    /\ hist.prev.toggleClicks = 1 /\ hist.prev.entryClicks = 1
    /\ hist.last.hit

Runs(configs) ==
    Cardinality({ i \in 1..Len(configs) :
                    i = 1 \/ configs[i].chartlist # configs[i - 1].chartlist })

FinishedBatch(kind) == out.op = "batch" /\ out.kind = kind /\ out.loaded

\* C3: a finished batch in which every attempted ChartList selection
\* succeeded has opened the ChartList dropdown once per maximal run of
\* consecutive requests with the same ChartList (2 for A/X, A/Y, B/Z).
C3_OpensEqualRuns ==
    (FinishedBatch("excel") /\ out.selOk) => out.opens = Runs(out.configs)

Scenario == <<Req("A", "X", 1, <<>>), Req("A", "Y", 2, <<4>>), Req("B", "Z", 3, <<>>)>>

\* The batch A/X, A/Y, B/Z finished with every selection successful and two opens.
C3_Witness ==
    FinishedBatch("excel") /\ out.selOk /\ out.configs = Scenario /\ out.opens = 2

TabOrders(configs) == { configs[i].tab_order : i \in 1..Len(configs) }

\* C4 as stated: the keys of the returned map are exactly the tab_order
\* values of the input requests, failed requests included, and the map has
\* no more entries than there are requests.
C4_KeysAreAllTabOrders ==
    FinishedBatch("excel") =>
        /\ DOMAIN out.result = TabOrders(out.configs)
        /\ Cardinality(DOMAIN out.result) <= Len(out.configs)

\* C5: when a batch that has loaded its request list returns, every request
\* of the list was attempted, whichever requests failed.
C5_EveryRequestAttempted ==
    (out.op = "batch" /\ out.loaded) => out.navigated = 1..Len(out.configs)

\* A finished batch whose first request failed and whose last request was
\* attempted and opened.
C5_Witness ==
    /\ FinishedBatch("excel") /\ Len(out.configs) = 3
    /\ 1 \notin out.stored /\ 3 \in out.stored /\ out.navigated = {1, 2, 3}

---------------------------------------------------------------------------
(* Properties of the selector resolutions *)

\* The strategies of the last resolution that produced the required outcome.
Matching == { i \in 1..Len(sel.outs) : Matches(sel.outs[i]) }

\* C6: a resolution tries its strategies in list order, each at most once,
\* up to the first one that matches (finds its element and, for a
\* find-and-click, clicks it without raising) and no further; that strategy
\* is the one used. When no strategy matches, every strategy was tried once
\* and the resolution returns not-found.
C6_FirstMatchInOrder ==
    sel.op # "none" =>
        /\ \A i \in 1..Len(sel.res.tried) : sel.res.tried[i] = i
        /\ Len(sel.res.tried) <= Len(sel.outs)
        /\ \A k \in Matching :
             (\A j \in Matching : k <= j) =>
                 /\ sel.res.found /\ sel.res.used = k
                 /\ Len(sel.res.tried) = k
        /\ Matching = {} =>
             /\ ~sel.res.found /\ sel.res.used = 0
             /\ Len(sel.res.tried) = Len(sel.outs)

\* A ChartStyle box resolution in which only the second of the three
\* strategies matches, after the first one raised.
C6_Witness ==
    /\ sel.op = "click_box" /\ sel.outs = <<"raises", "click_ok", "none">>
    /\ sel.res.used = 2 /\ sel.res.tried = <<1, 2>>

---------------------------------------------------------------------------
(* Properties of the session manager *)

\* C7: the mapping run_parallel_tasks returns has an entry for the session
\* of every task of the list, and a task that raised, named a session that
\* is not registered or named an unknown task type has an error entry under
\* its session.
C7_EveryTaskHasItsOutcome ==
    out.op = "run_parallel_tasks" =>
        \A i \in DOMAIN out.tasks :
            LET sid == out.tasks[i].session_id
            IN  /\ sid \in DOMAIN out.results
                /\ out.outcomes[i].kind \in {"raised", "error"} =>
                       out.results[sid].kind = "error"

\* C8: create_session with a session_id that is registered returns the
\* registered controller and changes neither the registry nor any
\* controller; no controller is constructed.
C8_DuplicateCreateReturnsExisting ==
    [][ (out'.op = "create_session" /\ out'.id \in DOMAIN sessions) =>
            /\ out'.existed
            /\ out'.ret = sessions[out'.id]
            /\ sessions' = sessions
            /\ ctl' = ctl ]_vars

\* create_session was called for a registered id with other credentials
\* than those of the registered controller.
C8_Witness ==
    /\ out.op = "create_session" /\ out.existed
    /\ out.args.username # ctl[out.ret].username
    /\ StoredPosition(out.args) # ctl[out.ret].window_position

\* C9: initialize_session never raises, and it returns False exactly when
\* the session_id is not registered, initialize() raised, or auto_login is
\* set and login() returned False; a positioning failure does not count.
C9_InitializeSessionResult ==
    out.op = "initialize_session" =>
        /\ ~out.raised
        /\ out.ret <=> (out.known /\ ~out.init_raised /\ ~out.login_failed)

\* initialize_session returned True although the window positioning raised.
C9_Witness ==
    /\ out.op = "initialize_session" /\ out.pos_raised /\ out.auto_login
    /\ out.ret

\* C10: close_all_sessions calls close() on the controller of every
\* registered session, whichever of the closes raise, does not raise itself,
\* and leaves the registry empty.
C10_CloseAllClosesAllAndClears ==
    out.op = "close_all_sessions" =>
        /\ out.closed = DOMAIN out.before
        /\ ~out.raised
        /\ sessions = EmptyMap

\* close_all_sessions ran on two sessions and the close of the first one raised.
C10_Witness ==
    /\ out.op = "close_all_sessions"
    /\ DOMAIN out.before = {"s1", "s2"}
    /\ out.failed = {"s1"} /\ out.before["s1"] < out.before["s2"]

\* C11: two sessions registered under different session_ids have different
\* persisted-auth-state files.
C11_SessionFilesDiffer ==
    \A a \in DOMAIN sessions, b \in DOMAIN sessions :
        a # b => ctl[sessions[a]].session_file # ctl[sessions[b]].session_file

---------------------------------------------------------------------------
(* Properties of login and of the batch reports *)

\* C12: a login() call on a controller that is not logged in returns True
\* or sets is_logged_in only when a success indicator was found on the page;
\* on an ambiguous page it returns False and is_logged_in stays false.
C12_LoginOnlyOnIndicator ==
    (out.op = "login" /\ ~out.was_logged_in) =>
        /\ (out.ret \/ ctl[out.c].is_logged_in) => out.outcome = "indicator"
        /\ out.outcome = "ambiguous" => (~out.ret /\ ~ctl[out.c].is_logged_in)

\* C13: when a batch ends, a screenshot was captured for every request: the
\* one the loop takes before it records the request, or, for a request that
\* failed, at least one taken by the direct-URL fallback of its navigation.
C13_ScreenshotForEveryRequest ==
    FinishedBatch("excel") =>
        \A i \in 1..Len(out.configs) : i \in out.stored \/ i \in out.fallbacks

\* C14: the success count a batch reports, the size of the map it returns,
\* is the number of requests whose processing completed successfully, also
\* when several requests have the same tab_order.
C14_SuccessCountIsSuccesses ==
    FinishedBatch("excel") =>
        Cardinality(DOMAIN out.result) = Cardinality(out.stored)

---------------------------------------------------------------------------
(* Properties of the runs *)

\* C15: a run of chartlist_batch_viewer that has ended, by whichever exit
\* path, has closed the browser that initialize() launched.
C15_BrowserEventuallyClosed ==
    At("exited") => "browser" \notin ctl[Main].open

---------------------------------------------------------------------------
(* Properties of the window positions *)

\* Two rectangles have a pixel in common.
Overlap(a, b) ==
    /\ a.x < b.x + b.width /\ b.x < a.x + a.width
    /\ a.y < b.y + b.height /\ b.y < a.y + a.height

\* The two rectangles computed for two windows lie side by side from the
\* monitor's origin, with equal widths and the monitor's height.
SideBySide ==
    /\ Len(out.res) = 2
    /\ out.res[1].width = out.res[2].width
    /\ out.res[1].x = out.x /\ out.res[2].x = out.res[1].x + out.res[1].width
    /\ ~Overlap(out.res[1], out.res[2])

\* C16 (as stated): for two windows the rectangles have equal width, do not
\* overlap and their widths add up to the monitor width, for every width.
C16_HalvesTileEveryWidth ==
    (out.op = "positions" /\ out.n = 2) =>
        SideBySide /\ out.res[1].width + out.res[2].width = out.w

\* C16 (amended): for two windows the rectangles have equal width
\* floor(width / 2) and do not overlap; their widths add up to the monitor
\* width when it is even and to one pixel less when it is odd.
C16_HalvesTileEvenWidth ==
    (out.op = "positions" /\ out.n = 2) =>
        /\ SideBySide
        /\ out.res[1].width + out.res[2].width = out.w - (out.w % 2)

\* Two windows on the default monitor: each is 960 wide.
C16_Witness ==
    /\ out.op = "positions" /\ out.n = 2 /\ out.w = 1920
    /\ out.res[1].width = 960 /\ out.res[2].width = 960 /\ out.res[2].x = out.x + 960

\* C17: get_split_screen_positions returns exactly n rectangles, pairwise
\* non-overlapping, each of positive width and height.
C17_DisjointPositiveRectangles ==
    out.op = "positions" =>
        /\ Len(out.res) = out.n
        /\ \A i \in 1..Len(out.res) : out.res[i].width > 0 /\ out.res[i].height > 0
        /\ \A i \in 1..Len(out.res), j \in 1..Len(out.res) :
             i # j => ~Overlap(out.res[i], out.res[j])

---------------------------------------------------------------------------
(* Properties of ChartListConfigReader *)

\* C18: writing the template with create_template and reading it back with
\* load_chart_configs yields, in order, exactly the declared sample rows
\* (chartlist, chart_name, tab_order, timeframe_box, notes); the first one is
\* 'My Watchlist', 'AAPL', 1, None, 'Check resistance at 180'.
C18_TemplateRoundTrip ==
    out.op = "template" =>
        /\ out.res.ok
        /\ out.res.configs = TemplateData
        /\ out.res.configs[1] =
             Config("My Watchlist", "AAPL", 1, <<>>, "Check resistance at 180")

\* The template was written and read back, with a row that names a box and
\* a row that names none.
C18_Witness ==
    /\ out.op = "template"
    /\ Len(out.res.configs) = 5
    /\ \E i, j \in 1..5 :
         /\ out.sheet.rows[i].TimeframeBox = Blank
         /\ out.sheet.rows[j].TimeframeBox # Blank

\* The sheet has the required columns, keeps a row after dropna, and no kept
\* row has a TimeframeBox that int() rejects or a fractional TabOrder.
LoadableButForTabOrder(sh) ==
    /\ RequiredCols \subseteq sh.header
    /\ KeptRows(sh, 1) # <<>>
    /\ \A k \in 1..Len(KeptRows(sh, 1)) :
         /\ BoxOf(sh.header, sh.rows[KeptRows(sh, 1)[k]].TimeframeBox) # <<>>
         /\ ~sh.rows[KeptRows(sh, 1)[k]].TabOrder.frac

\* The tab_order the TabOrder cell v stands for: the integer it holds or
\* spells, and 999 when it is blank or cannot be parsed.
StatedTabOrder(v) ==
    IF v.t = "int" THEN v.n
    ELSE IF v.t = "text" /\ IntOf(v) # <<>> THEN IntOf(v)[1]
    ELSE 999

\* C19: for the rows with non-empty ChartList and ChartName the load yields
\* tab_order equal to the TabOrder cell when it is an integer and 999 when
\* the cell is missing or cannot be parsed as an integer, and an unparseable
\* TabOrder never makes the load fail.
C19_TabOrderDefaultsTo999 ==
    (out.op = "load_chart_configs" /\ LoadableButForTabOrder(out.sheet)) =>
        LET kept == KeptRows(out.sheet, 1)
        IN  /\ out.res.ok
            /\ Len(out.res.configs) = Len(kept)
            /\ \A t \in {1, 2, 3, 999} :
                 Cardinality({ k \in 1..Len(kept) :
                     StatedTabOrder(out.sheet.rows[kept[k]].TabOrder) = t })
                 = Cardinality({ k \in 1..Len(out.res.configs) :
                     out.res.configs[k].tab_order = t })

\* A name cell is empty: blank, or a text of white space only.
EmptyName(v) == ~NotNa(v) \/ Strip(v.s) = ""

\* C20: every request load_chart_configs returns has a non-empty chartlist
\* and a non-empty chart_name: the rows whose ChartList or ChartName cell is
\* empty (also of white space only) produce no request.
C20_NamesNonEmpty ==
    (out.op = "load_chart_configs" /\ out.res.ok) =>
        /\ \A k \in 1..Len(out.res.configs) :
             out.res.configs[k].chartlist # "" /\ out.res.configs[k].chart_name # ""
        /\ Len(out.res.configs) =
             Cardinality({ i \in 1..Len(out.sheet.rows) :
                 ~EmptyName(out.sheet.rows[i].ChartList)
                 /\ ~EmptyName(out.sheet.rows[i].ChartName) })

---------------------------------------------------------------------------
(* Properties of the controller's life cycle *)

\* C21: a newly constructed controller is Unauthenticated: is_logged_in is
\* False, current_ticker and current_chartlist are None, and no browser,
\* context or page exists until initialize() has run; after an initialize()
\* that returned, browser and page are present.
C21_NewControllerUnauthenticated ==
    /\ \A c \in DOMAIN ctl :
         ctl[c].made = {} =>
             /\ ~ctl[c].is_logged_in
             /\ ctl[c].current_ticker = None
             /\ ctl[c].current_chartlist = None
             /\ ctl[c].open = {}
    /\ (out.op = "initialize" /\ ~out.raised) =>
           {"browser", "page"} \subseteq ctl[out.c].made \cap ctl[out.c].open

\* initialize() has returned on the controller.
C21_Witness ==
    /\ out.op = "initialize" /\ ~out.raised
    /\ ctl[out.c].made # {}

---------------------------------------------------------------------------
(* Properties of navigate_via_chartlist_dropdown *)

\* The step is a call of navigate_via_chartlist_dropdown on controller c,
\* directly or by the batch.
DirectNavStep(c) == out'.op = "nav" /\ out'.c = c
BatchNavStep(c, p) ==
    /\ proc'[p].kind = "excel" /\ proc'[p].c = c
    /\ proc'[p].navigated # proc[p].navigated

\* The step is such a call for ChartList cl, and its click on the entry of
\* cl was issued without raising.
EntryClicked(c, cl) ==
    \/ DirectNavStep(c) /\ out'.cl = cl /\ out'.entryOk
    \/ \E p \in DOMAIN proc :
         BatchNavStep(c, p) /\ proc'[p].nav.cl = cl /\ proc'[p].nav.entryOk

\* The step is such a call and it fell back to navigate_to_chart.
FellBack(c) ==
    \/ DirectNavStep(c) /\ out'.fallback
    \/ \E p \in DOMAIN proc : BatchNavStep(c, p) /\ proc'[p].nav.fallback

\* The step is such a call and it fell back without having clicked the
\* entry of a ChartList.
FellBackBeforeSelection(c) ==
    \/ DirectNavStep(c) /\ out'.fallback /\ ~out'.entryOk
    \/ \E p \in DOMAIN proc :
         BatchNavStep(c, p) /\ proc'[p].nav.fallback /\ ~proc'[p].nav.entryOk

\* C22 (as stated): current_chartlist changes to a value cl only in a step
\* in which a click on the dropdown entry for cl has just been issued without
\* raising, and on every path of navigate_via_chartlist_dropdown that falls
\* back current_chartlist is left unchanged.
C22_CacheUnchangedOnEveryFallback ==
    [][ \A c \in DOMAIN ctl :
          /\ (ctl'[c].current_chartlist # ctl[c].current_chartlist
                /\ ctl'[c].current_chartlist # None)
               => EntryClicked(c, ctl'[c].current_chartlist)
          /\ FellBack(c) => ctl'[c].current_chartlist = ctl[c].current_chartlist ]_vars

\* C22 (amended): current_chartlist changes to a value cl only in a step in
\* which a click on the dropdown entry for cl has just been issued without
\* raising; a call that falls back before it has clicked the ChartList entry
\* (toggle not found, entry not found, exception) leaves current_chartlist
\* unchanged, and a call that has clicked the entry of cl leaves
\* current_chartlist = cl also when it falls back at the Chart dropdown.
C22_CacheChangesOnlyOnEntryClick ==
    [][ \A c \in DOMAIN ctl :
          /\ (ctl'[c].current_chartlist # ctl[c].current_chartlist
                /\ ctl'[c].current_chartlist # None)
               => EntryClicked(c, ctl'[c].current_chartlist)
          /\ FellBackBeforeSelection(c)
               => ctl'[c].current_chartlist = ctl[c].current_chartlist
          /\ \A cl \in ChartLists :
               EntryClicked(c, cl) => ctl'[c].current_chartlist = cl ]_vars

\* A call of the batch for a ChartList other than the cached one has fallen
\* back without a click on the entry, and the cache holds the other
\* ChartList.
C22_Witness ==
    /\ proc[Main].nav.op = "nav"
    /\ proc[Main].nav.fallback /\ ~proc[Main].nav.hit /\ ~proc[Main].nav.entryOk
    /\ ctl[proc[Main].c].current_chartlist \notin {None, proc[Main].nav.cl}

---------------------------------------------------------------------------
(* Properties of the order of a batch *)

\* The position of row r in file f (the rows of a file differ).
PosIn(f, r) == CHOOSE i \in 1..Len(f) : f[i] = r

\* s holds the rows of f in ascending tab_order, rows of equal tab_order in
\* the order of f.
IsStableSortOf(s, f) ==
    /\ Len(s) = Len(f)
    /\ { s[i] : i \in 1..Len(s) } = { f[i] : i \in 1..Len(f) }
    /\ \A i, j \in 1..Len(s) :
         i < j => \/ s[i].tab_order < s[j].tab_order
                  \/ /\ s[i].tab_order = s[j].tab_order
                     /\ PosIn(f, s[i]) < PosIn(f, s[j])

\* Every configuration file that loads, with the rows load_chart_configs
\* returns for it.
LoadedFiles ==
    { [file |-> f, configs |-> LoadChartConfigs(f).configs] :
        f \in { g \in ConfigFiles : LoadChartConfigs(g).ok } }

\* C23: within one batch the requests are navigated one at a time in
\* ascending tab_order, rows of equal tab_order in file order: when the
\* navigation of request idx starts, exactly the requests before it have been
\* navigated and each of them has been recorded or has failed, and the
\* navigation of request idx has returned before its tab is opened.
C23_NavigatedInTabOrder ==
    \A p \in DOMAIN proc :
        (proc[p].kind = "excel" /\ proc[p].pc \in {"nav", "tab"}) =>
            LET q == proc[p]
            IN  /\ \A l \in LoadedFiles :
                     l.configs = q.configs => IsStableSortOf(q.configs, l.file)
                /\ q.navigated = 1..(IF q.pc = "tab" THEN q.idx ELSE q.idx - 1)
                /\ q.stored \subseteq q.navigated
                /\ q.pc = "tab" => (q.idx \notin q.stored /\ q.nav.op = "nav" /\ q.nav.ret)

\* The batch is at its third request, which has the tab_order of the second.
C23_Witness ==
    /\ proc[Main].kind = "excel" /\ proc[Main].pc = "tab" /\ proc[Main].idx = 3
    /\ proc[Main].configs[2].tab_order = proc[Main].configs[3].tab_order

---------------------------------------------------------------------------
(* Properties of the tabs of a batch *)

\* C24: request #1 is served on the hub tab, and for each request #2..N a
\* new tab is opened and navigated to the base chart URL before the
\* ChartList/chart selection of the request is attempted, and the selection
\* is performed on that new tab.
C24_SelectionOnTheRequestsTab ==
    \A p \in DOMAIN proc :
        (proc[p].kind = "excel" /\ proc[p].nav.op = "nav") =>
            /\ proc[p].nav.page = TabEntry(proc[p].nav.idx, FALSE).page
            /\ proc[p].nav.idx > 1 => proc[p].nav.idx \in proc[p].created

---------------------------------------------------------------------------
(* Properties of the cache statistics *)

\* C25: the batch counts a request as a cache hit exactly when
\* navigate_via_chartlist_dropdown skips the ChartList dropdown for it (the
\* target ChartList is current_chartlist at the time of the request) and as a
\* miss otherwise; at the end of the batch hits + misses is the number of
\* requests and the number of ChartList-dropdown opens does not exceed the
\* misses.
C25_HitsAreSkippedDropdowns ==
    [][ /\ \A p \in DOMAIN proc :
             BatchNavStep(proc'[p].c, p) =>
                 LET skipped == proc'[p].nav.hit
                 IN  /\ skipped = (ctl[proc[p].c].current_chartlist = proc'[p].nav.cl)
                     /\ skipped => proc'[p].opens = proc[p].opens
                     /\ proc'[p].cache_hits = proc[p].cache_hits + (IF skipped THEN 1 ELSE 0)
                     /\ proc'[p].cache_misses = proc[p].cache_misses + (IF skipped THEN 0 ELSE 1)
        /\ (out'.op = "batch" /\ out'.kind = "excel" /\ out'.loaded) =>
               /\ out'.cache_hits + out'.cache_misses = Len(out'.configs)
               /\ out'.opens <= out'.cache_misses ]_vars

\* A batch has ended with a hit, and with a miss that did not open the
\* dropdown.
C25_Witness ==
    /\ out.op = "batch" /\ out.kind = "excel" /\ out.loaded
    /\ out.cache_hits >= 1
    /\ out.opens < out.cache_misses

---------------------------------------------------------------------------
(* Properties of the fallback *)

\* C26: when neither the exact-text nor the substring match of the ChartList
\* entry (or, afterwards, of the chart entry) is found,
\* navigate_via_chartlist_dropdown performs the direct URL navigation with
\* the chart name as ticker and returns its result; the batch is not aborted
\* and goes on with the request's tab or with the next request.
C26_NotFoundFallsBackAndBatchGoesOn ==
    [][ \A p \in DOMAIN proc :
          (BatchNavStep(proc'[p].c, p) /\ proc'[p].nav.notFound) =>
              LET n == proc'[p].nav
              IN  /\ n.fallback /\ n.direct # "none"
                  /\ n.chart = proc[p].configs[proc[p].idx].chart_name
                  /\ n.ret = (n.direct = "ok")
                  /\ n.direct = "ok" => ctl'[proc[p].c].current_ticker = n.chart
                  /\ n.direct = "failed" =>
                         ctl'[proc[p].c].current_ticker = ctl[proc[p].c].current_ticker
                  /\ proc'[p].configs = proc[p].configs
                  /\ IF n.ret THEN proc'[p].pc = "tab" /\ proc'[p].idx = proc[p].idx
                     ELSE proc'[p].pc = "nav" /\ proc'[p].idx = proc[p].idx + 1 ]_vars

\* An entry was not found for a request, the direct navigation failed, and
\* the batch is about to navigate the next request.
C26_Witness ==
    /\ proc[Main].kind = "excel" /\ proc[Main].pc = "nav"
    /\ proc[Main].nav.op = "nav" /\ proc[Main].nav.notFound /\ ~proc[Main].nav.ret
    /\ proc[Main].idx = proc[Main].nav.idx + 1
    /\ proc[Main].idx <= Len(proc[Main].configs)

---------------------------------------------------------------------------
(* Properties of the ChartStyle box *)

\* No strategy of the selector chain clicks a box.
NoneClicks(outs) == \A i \in 1..Len(outs) : ~Matches(outs[i])

\* C27: if the timeframe-box selection of a request finds no matching
\* selector or raises, _click_chartstyle_box returns False without raising
\* and without a completed click, so that the chart style that was active is
\* kept, and the request is still screenshotted and recorded in the batch
\* result.
C27_BoxFailureIsNotFatal ==
    \A p \in DOMAIN proc :
        (proc[p].kind = "excel" /\ proc[p].tab.op = "tab"
           /\ proc[p].tab.box = "failed" /\ ~proc[p].tab.raised) =>
            LET i == proc[p].tab.idx
                key == proc[p].configs[i].tab_order
            IN  /\ \A outs \in BoxEnvs :
                     NoneClicks(outs) =>
                         /\ ~ClickChartstyleBox(outs).found
                         /\ ClickChartstyleBox(outs).used = 0
                /\ Truthy(proc[p].configs[i].timeframe_box)
                /\ i \in proc[p].stored
                /\ key \in DOMAIN proc[p].opened_tabs
                /\ proc[p].opened_tabs[key] = TabEntry(i, FALSE)

\* The box of the second request could not be clicked and the request was
\* recorded.
C27_Witness ==
    /\ proc[Main].kind = "excel" /\ proc[Main].tab.op = "tab"
    /\ proc[Main].tab.box = "failed" /\ proc[Main].tab.idx = 2
    /\ 2 \in proc[Main].stored

\* C28: a timeframe-box click is attempted only for box numbers in 1..12:
\* for a request whose timeframe_box lies outside 1..12 the batch resolves
\* and clicks no ChartStyle-box selector.
C28_BoxOnlyInRange ==
    \A p \in DOMAIN proc :
        (proc[p].kind = "excel" /\ proc[p].tab.op = "tab"
           /\ proc[p].tab.box \in {"clicked", "failed"}) =>
            proc[p].configs[proc[p].tab.idx].timeframe_box[1] \in 1..12

---------------------------------------------------------------------------
(* Properties of the session start *)

\* C29: if the persisted auth-state file of a session exists but is
\* unreadable or corrupt, initialize() completes with is_logged_in false
\* instead of failing, and the login() that follows performs the full
\* interactive login.
C29_CorruptSessionFileIsAbsent ==
    /\ (out.op = "initialize" /\ out.outcome = "corrupt") =>
           /\ ~out.raised
           /\ Started(ctl[out.c])
           /\ ~ctl[out.c].is_logged_in
    /\ (out.op = "login" /\ out.after_init = "corrupt") => out.form

\* C30: if a stored session is restored and verified, the login() that
\* follows returns True without any form interaction; if no state is stored,
\* or the verification fails or raises, is_logged_in is false after
\* initialize() and the login() that follows enters the interactive form
\* login.
C30_RestoredSessionSkipsLogin ==
    /\ (out.op = "initialize" /\ ~out.raised) =>
           ctl[out.c].is_logged_in = (out.outcome = "restored")
    /\ (out.op = "login" /\ out.after_init = "restored") =>
           /\ out.ret /\ ~out.form /\ out.was_logged_in
           /\ ctl[out.c].is_logged_in
    /\ (out.op = "login" /\ out.after_init \in {"fresh", "expired", "verify_raises"}) =>
           /\ ~out.was_logged_in /\ out.form
           /\ out.ret = ctl[out.c].is_logged_in

\* login() was called directly after an initialize() that restored the session.
C30_Witness ==
    /\ out.op = "login" /\ out.after_init = "restored"
    /\ out.ret

---------------------------------------------------------------------------
(* Properties of the parallel execution *)

\* The session the task of coroutine p names was left not logged in by its
\* initialization (initialize() failed or login() returned False).
SessionFailed(p) ==
    /\ proc[p].task.session_id \in DOMAIN sessions
    /\ ~ctl[sessions[proc[p].task.session_id]].is_logged_in

\* C31: in a run of run_parallel_tasks, a task whose session is not logged
\* in carries out nothing in that session: no request of it is navigated
\* through the dropdowns, no tab is created or recorded for it, and its
\* outcome is not a success entry.
C31_FailedSessionRunsNoTask ==
    \A p \in DOMAIN proc :
        SessionFailed(p) =>
            /\ proc[p].navigated = {}
            /\ proc[p].created = {}
            /\ proc[p].stored = {}
            /\ proc[p].res.kind # "success"

\* The navigation state of a controller.
NavState(c) ==
    [ current_chartlist |-> c.current_chartlist, current_ticker |-> c.current_ticker,
      is_logged_in |-> c.is_logged_in ]

\* C32: a step of the task of one session leaves current_chartlist,
\* current_ticker and is_logged_in of every other registered session as they
\* were, however the steps of the tasks interleave.
C32_SessionsDoNotInterfere ==
    [][\A p \in DOMAIN proc :
          (p \in DOMAIN proc' /\ proc'[p] # proc[p]) =>
              \A id \in DOMAIN sessions :
                  id # proc[p].task.session_id =>
                      NavState(ctl'[sessions[id]]) = NavState(ctl[sessions[id]])]_vars

\* The batches of two sessions are both under way between two awaits of
\* their navigations: the batch of s1 has selected ChartList A and gone to
\* X by the direct URL, the batch of s2 is on its way to the direct URL
\* with its session logged in, its cache empty and its main tab on the hub
\* ticker.
C32_Witness ==
    /\ Len(proc) = 2
    /\ proc[1].task.session_id = "s1" /\ proc[2].task.session_id = "s2"
    /\ proc[1].kind = "excel" /\ proc[1].pc = "tab"
    /\ proc[2].kind = "excel" /\ proc[2].pc = "goto"
    /\ ctl[sessions["s1"]].current_chartlist = "A"
    /\ ctl[sessions["s1"]].current_ticker = "X"
    /\ ctl[sessions["s1"]].is_logged_in
    /\ ctl[sessions["s2"]].current_chartlist = None
    /\ ctl[sessions["s2"]].current_ticker = Hub
    /\ ctl[sessions["s2"]].is_logged_in

\* The operation of coroutine p is in progress on its session's controller.
InProgress(p) ==
    proc[p].pc \in {"hub", "nav", "sel", "chart", "login", "goto", "tab", "frame"}

\* C33: run_parallel_tasks never has the operations of two tasks that name
\* the same session_id in progress at once on that session's controller.
C33_OneOperationPerSession ==
    \A p1, p2 \in DOMAIN proc :
        (/\ p1 # p2
         /\ proc[p1].task.session_id = proc[p2].task.session_id
         /\ InProgress(p1))
            => ~InProgress(p2)

---------------------------------------------------------------------------
(* Properties of termination *)

---------------------------------------------------------------------------
(* Properties of the coherence of the ChartList cache *)

\* The step has sent the main tab of controller c to a ticker's own URL,
\* away from any ChartList: enter_ticker_in_search_box returned True, or a
\* call of navigate_via_chartlist_dropdown fell back to navigate_to_chart,
\* which returned True.
NavigatedAway(c) ==
    \/ out'.op = "enter_ticker" /\ out'.c = c /\ out'.ret
    \/ DirectNavStep(c) /\ out'.fallback /\ out'.ret
    \/ \E p \in DOMAIN proc : BatchNavStep(c, p) /\ proc'[p].nav.direct = "ok"

\* C35: the cache names the ChartList the main tab is on: an operation that
\* sends the main tab away from its ChartList does not leave a ChartList
\* name in current_chartlist, so that a later call cannot take the
\* cache-hit path on a tab that is not on that ChartList.
C35_NavigatingAwayDropsTheCache ==
    [][ \A c \in DOMAIN ctl :
          NavigatedAway(c) => ctl'[c].current_chartlist = None ]_vars

---------------------------------------------------------------------------
(* Properties of the tabs a batch returns *)

\* The requests of a finished batch whose navigate_via_chartlist_dropdown
\* call returned True and so has navigated the main tab: those that got to
\* the creation of their tab or to their entry.
NavigatedTheHub(o) == o.created \cup o.stored

\* C36: at the end of a batch the tab of every entry still shows the chart
\* of its request: the main tab, recorded for request #1, was not navigated
\* by a later request.
C36_EntriesShowTheirCharts ==
    FinishedBatch("excel") =>
        \A k \in DOMAIN out.result :
            out.result[k].page = 0 =>
                \A j \in NavigatedTheHub(out) : j <= out.result[k].idx

\* C37: a request has an entry in the result of a batch only if its
\* ChartList and its chart were selected through the dropdowns: no recorded
\* request was served by the direct-URL fallback.
C37_RecordedOnlyIfSelected ==
    FinishedBatch("excel") => out.stored \cap out.fallbacks = {}

\* C38: when open_charts_from_excel returns, every tab it created is the
\* tab of some entry of the map it returns.
C38_EveryCreatedTabRecorded ==
    FinishedBatch("excel") =>
        \A j \in out.created : \E k \in DOMAIN out.result : out.result[k].page = j

---------------------------------------------------------------------------
(* Properties of closing *)

\* C39: after close_session(id) was called for a registered id, also when
\* the controller's close() raised, id is not in the registry.
C39_ClosedSessionIsUnregistered ==
    (out.op = "close_session" /\ out.known) => out.id \notin DOMAIN sessions

\* C40: after close() was invoked on a controller and closing its context
\* or its browser raised, the resources that come after the one that raised
\* are closed all the same: the browser is not left open behind a context
\* that failed to close, nor the Playwright driver behind a context or a
\* browser that failed to close. The controller close_session has called
\* close() on is the one still registered under the id when close() raised.
C40_CloseLeavesNothingOpen ==
    (out.op = "close_session" /\ out.known /\ out.raised /\ out.id \in DOMAIN sessions) =>
        LET open == ctl[sessions[out.id]].open
        IN  /\ "context" \in open => "browser" \notin open
            /\ (open \cap {"context", "browser"} # {}) => "playwright" \notin open

====
